---- MODULE Spec2Model ----
(***************************************************************************)
(* State-machine model of the App component of src/src/App.tsx (the       *)
(* six-tab component, lines 75-975): the React state of the component,    *)
(* one action per event handler up to its first await, and one action per *)
(* continuation that runs when the awaited fetch settles.                  *)
(*                                                                         *)
(* React semantics kept by the model:                                      *)
(*  - a handler reads the state of the render in which it was invoked     *)
(*    (closure capture): an in-flight record carries the captured         *)
(*    resumeUrl, and a follow-up call made from a continuation            *)
(*    (fetchReview from submitCompose, fetchResults from sendBackToN8n)   *)
(*    reads the captured value, not the value just handed to setResumeUrl;*)
(*  - setters called in a continuation write the current state;           *)
(*  - the useEffect on [images] runs after every render in which the      *)
(*    images array changed identity, before the next event is handled:    *)
(*    it is part of every action that calls setImages;                    *)
(*  - only the content of the active tab is mounted, so a button can be   *)
(*    pressed only while its tab is the active one.                       *)
(*                                                                         *)
(* Strings that are only compared are TLA+ strings.  Addresses are        *)
(* sequences of lexemes (single characters, plus one lexeme for           *)
(* "scheme://host" and one for the placeholder marker) so that the        *)
(* prefix tests of toProxied and of the Finals check are computed.         *)
(***************************************************************************)
EXTENDS Integers, Sequences, FiniteSets, TLC

\* ------------------------------------------------------------------ bounds
MaxInFlight == 2     \* network exchanges outstanding at once
MaxImages == 2       \* length of an image list in a response

\* ------------------------------------------------------------ value space
Tabs == <<"trigger", "uploadStyle", "compose", "review", "results", "finals">>
TabSet == {Tabs[i] : i \in 1..Len(Tabs)}
Statuses == {"idle", "pending", "done", "error"}

ORIGIN == "https://n8n.example.com"
MARKER == "[filled at execution time]"
EmptyStr == <<>>
ApiPrefix == <<"/", "a", "p", "i">>

\* `${BASE}/trigger`
TriggerUrl == ApiPrefix \o <<"/", "t">>

\* addresses a response can supply in its resumeUrl field
UrlA == <<"/", "w", "1">>
UrlB == <<ORIGIN, "/", "w", "2">>
UrlPlaceholder == <<MARKER>>
RespUrls == {EmptyStr, UrlB, UrlPlaceholder}

StartsWith(s, p) == Len(s) >= Len(p) /\ SubSeq(s, 1, Len(p)) = p

\* new URL(s): succeeds only for an absolute address
IsAbsolute(s) == Len(s) > 0 /\ s[1] = ORIGIN
\* u.pathname + u.search of an absolute address ("/" when the path is empty)
PathAndSearch(s) ==
    LET rest == SubSeq(s, 2, Len(s))
    IN IF rest = <<>> \/ rest[1] = "?" THEN <<"/">> \o rest ELSE rest

\* variant: the address is used as stored
toProxied_Raw(urlOrPath) == urlOrPath
\* variant: a relative address is prefixed also when it starts with '/api'
toProxied_AlwaysPrefix(urlOrPath) ==
    IF IsAbsolute(urlOrPath)
    THEN ApiPrefix \o PathAndSearch(urlOrPath)
    ELSE ApiPrefix \o (IF StartsWith(urlOrPath, <<"/">>) THEN <<>> ELSE <<"/">>)
                   \o urlOrPath
\* toProxied: '/api' + pathname + search of an absolute address; a relative
\* one unchanged when it starts with '/api', else '/api' + ['/'] + input
toProxied(urlOrPath) ==
    IF IsAbsolute(urlOrPath)
    THEN ApiPrefix \o PathAndSearch(urlOrPath)
    ELSE IF StartsWith(urlOrPath, ApiPrefix)
         THEN urlOrPath
         ELSE ApiPrefix \o (IF StartsWith(urlOrPath, <<"/">>) THEN <<>> ELSE <<"/">>)
                        \o urlOrPath

\* /^(https?:\/\/|\/)/i.test(s) && !/\[filled at execution time\]/i.test(s)
LooksLikeAddress(s) ==
    /\ Len(s) > 0
    /\ s[1] \in {ORIGIN, "/"}
    /\ \A i \in 1..Len(s) : s[i] # MARKER

\* String.prototype.trim on the strings of the model
Trim(s) == CASE s = " a " -> "a"
             [] s = " f " -> "f"
             [] s = " "   -> ""
             [] OTHER     -> s

RECURSIVE FilterNonEmpty(_)
FilterNonEmpty(xs) ==
    IF xs = <<>> THEN <<>>
    ELSE IF Head(xs) = "" THEN FilterNonEmpty(Tail(xs))
         ELSE <<Head(xs)>> \o FilterNonEmpty(Tail(xs))

\* A field that holds a string instead of a list is written as the tag TEXT
\* followed by the characters of the string.
TEXT == "<string>"
QUOTE == "\""
Text(chars) == <<TEXT>> \o chars
IsText(field) == Len(field) > 0 /\ field[1] = TEXT

\* the string made of the given characters
RECURSIVE Join(_)
Join(chars) == IF chars = <<>> THEN "" ELSE Head(chars) \o Join(Tail(chars))

\* String.prototype.trim on a sequence of characters
RECURSIVE TrimLeft(_)
TrimLeft(cs) == IF cs # <<>> /\ Head(cs) = " " THEN TrimLeft(Tail(cs)) ELSE cs
RECURSIVE TrimRight(_)
TrimRight(cs) ==
    IF cs # <<>> /\ cs[Len(cs)] = " " THEN TrimRight(SubSeq(cs, 1, Len(cs) - 1)) ELSE cs
TrimChars(cs) == TrimRight(TrimLeft(cs))

\* JSON.parse of a text that is a list of string literals: ok with the list
\* of the strings in v, or not ok for a syntax error
RECURSIVE SkipWs(_, _)
SkipWs(cs, i) == IF i <= Len(cs) /\ cs[i] = " " THEN SkipWs(cs, i + 1) ELSE i
RECURSIVE JsonElements(_, _, _)
JsonElements(cs, i, acc) ==
    LET closing == {j \in (i + 1)..Len(cs) : cs[j] = QUOTE}
    IN IF i > Len(cs) \/ cs[i] # QUOTE \/ closing = {} THEN [ok |-> FALSE, v |-> <<>>]
       ELSE LET j    == CHOOSE c \in closing : \A d \in closing : c <= d
                elem == Join(SubSeq(cs, i + 1, j - 1))
                k    == SkipWs(cs, j + 1)
            IN IF k = Len(cs) /\ cs[k] = "]" THEN [ok |-> TRUE, v |-> Append(acc, elem)]
               ELSE IF k < Len(cs) /\ cs[k] = ","
                 THEN JsonElements(cs, SkipWs(cs, k + 1), Append(acc, elem))
               ELSE [ok |-> FALSE, v |-> <<>>]
JsonList(cs) ==
    IF cs = <<>> \/ cs[1] # "[" THEN [ok |-> FALSE, v |-> <<>>]
    ELSE LET i == SkipWs(cs, 2)
         IN IF i = Len(cs) /\ cs[i] = "]" THEN [ok |-> TRUE, v |-> <<>>]
            ELSE JsonElements(cs, i, <<>>)

\* asStr.replace(/^\[|\]$/g, '')
StripBrackets(cs) ==
    LET a == IF cs # <<>> /\ Head(cs) = "[" THEN Tail(cs) ELSE cs
    IN IF a # <<>> /\ a[Len(a)] = "]" THEN SubSeq(a, 1, Len(a) - 1) ELSE a
\* .split(/\s*,\s*/)
RECURSIVE SplitCommas(_)
SplitCommas(cs) ==
    LET commas == {i \in DOMAIN cs : cs[i] = ","}
    IN IF commas = {} THEN <<cs>>
       ELSE LET i == CHOOSE c \in commas : \A d \in commas : c <= d
            IN <<TrimRight(SubSeq(cs, 1, i - 1))>>
                  \o SplitCommas(TrimLeft(SubSeq(cs, i + 1, Len(cs))))
\* variant: the quote characters of a piece are kept
StripQuotes_Keep(cs) == cs
\* s.replace(/^\"|\"$/g, '')
StripQuotes(cs) ==
    LET a == IF cs # <<>> /\ Head(cs) = QUOTE THEN Tail(cs) ELSE cs
    IN IF a # <<>> /\ a[Len(a)] = QUOTE THEN SubSeq(a, 1, Len(a) - 1) ELSE a

\* arr.map((s) => String(s).trim()).filter(Boolean)
CleanList(xs) == FilterNonEmpty([i \in 1..Len(xs) |-> Trim(xs[i])])

\* normalizeImages: nothing for an absent or empty field; a native list is
\* trimmed and filtered; a string is trimmed, parsed as a JSON list when it
\* is bracketed and parses, and otherwise split at commas
normalizeImages(imagesField) ==
    IF imagesField = <<>> \/ imagesField = <<TEXT>> THEN <<>>
    ELSE IF ~IsText(imagesField) THEN CleanList(imagesField)
    ELSE LET asStr  == TrimChars(Tail(imagesField))
             pieces == SplitCommas(StripBrackets(asStr))
         IN IF /\ asStr # <<>> /\ Head(asStr) = "[" /\ asStr[Len(asStr)] = "]"
               /\ JsonList(asStr).ok
            THEN CleanList(JsonList(asStr).v)
            ELSE FilterNonEmpty(
                    [i \in 1..Len(pieces) |-> Join(TrimChars(StripQuotes(pieces[i])))])

\* imgKey(src, i): `${src}-${i}`; the decimal suffix after the last '-' is
\* the index, so the string determines the pair
imgKey(src, i) == <<src, i>>

ImageKeys(imgs) == {imgKey(imgs[i], i - 1) : i \in 1..Len(imgs)}

\* ------------------------------------------------------------- responses
NoStatus == "<absent>"
None == <<>>
Some(x) == <<x>>

\* String(v) without the ?? '' fallback: null is rendered as the text "null"
ToStr_NoCoalesce(v) ==
    CASE v.k = "str"  -> v.s
      [] v.k = "num"  -> (CASE v.n = 0 -> "0" [] v.n = 5 -> "5" [] OTHER -> "?")
      [] OTHER        -> "null"
\* String(v ?? '') on a JSON value
ToStr(v) == CASE v.k = "str"  -> v.s
              [] v.k = "num"  -> (CASE v.n = 0 -> "0" [] v.n = 5 -> "5" [] OTHER -> "?")
              [] OTHER        -> ""
JStr(x) == [k |-> "str", s |-> x, n |-> 0]
JNum(x) == [k |-> "num", s |-> "", n |-> x]
JNull == [k |-> "null", s |-> "", n |-> 0]

\* Object.entries(d || {}).forEach(([k, v]) => (out[k] = String(v ?? '')))
normalizeDeliverables(ds) ==
    [i \in 1..Len(ds) |-> [f \in DOMAIN ds[i] |-> ToStr(ds[i][f])]]

DelivRaw == << [Scene |-> JStr("x"), Shots |-> JNum(5), Notes |-> JNull] >>

\* a response: the transport outcome, the shape of the body and the fields
\* of the (unwrapped) object.  Fields a handler does not read stay at their
\* defaults in the responses offered to that handler.
BaseResp ==
    [http |-> "ok", shape |-> "obj", raw |-> <<>>,
     resumeUrl |-> EmptyStr, images |-> <<>>, message |-> "",
     status |-> NoStatus, ok |-> FALSE, DELIVERABLES |-> None,
     videos |-> None, media |-> None]

Failures == {[BaseResp EXCEPT !.http = "fail"], [BaseResp EXCEPT !.http = "neterr"]}
\* a body that is text: raw is the text in pieces, a piece being a bracket,
\* a brace, the literal 0 or a run of other characters
NotJson == [BaseResp EXCEPT !.shape = "text", !.raw = <<"<html>">>]
TextRaws ==
    {<<"<html>">>,
     <<"Workflow was started">>,
     <<"WORKFLOW WAS STARTED">>,
     <<"Workflow was started", "{", "}">>,
     <<"{", "Workflow was started">>,
     <<"}", "<html>", "{">>,
     <<"{", "<html>", "}">>,
     <<"<html>", "[", "]", "<html>">>,
     <<"0">>}
TextBodies == {[BaseResp EXCEPT !.shape = "text", !.raw = t] : t \in TextRaws}
JsonShapes == {"obj", "list"}

\* JSON bodies: every profile as a plain object and as a one-element list,
\* with each of the given resumeUrl values
Bodies(profiles, urls) ==
    {[p EXCEPT !.shape = sh, !.resumeUrl = u] :
        p \in profiles, sh \in JsonShapes, u \in urls}

WithDeliverables == [BaseResp EXCEPT !.DELIVERABLES = Some(DelivRaw)]

ImageLists ==
    {l \in {<<"a">>, <<" a ", "b">>, <<"a", "", "b">>} : Len(l) <= MaxImages}
ResultProfiles ==
    {BaseResp,
     [BaseResp EXCEPT !.status = "done"],
     [BaseResp EXCEPT !.status = "error"],
     [BaseResp EXCEPT !.status = "ERROR", !.message = "srv"],
     [BaseResp EXCEPT !.status = "pending", !.message = "srv"],
     [BaseResp EXCEPT !.ok = TRUE]} \cup
    {[BaseResp EXCEPT !.images = im, !.message = "srv"] : im \in ImageLists} \cup
    {[BaseResp EXCEPT !.images = im, !.status = "error"] : im \in ImageLists}
FinalsProfiles ==
    {BaseResp,
     [BaseResp EXCEPT !.message = "srv"],
     [BaseResp EXCEPT !.status = "done"],
     [BaseResp EXCEPT !.status = "error", !.message = "srv"],
     [BaseResp EXCEPT !.ok = TRUE],
     [BaseResp EXCEPT !.videos = Some(<<"x">>), !.media = Some(<<"y">>)],
     [BaseResp EXCEPT !.videos = Some(<<>>), !.media = Some(<<"y">>)],
     [BaseResp EXCEPT !.media = Some(<<"y">>), !.message = "srv"]}

\* the responses of the unrestricted environment
TriggerResps == Failures \cup {NotJson} \cup Bodies({BaseResp}, {EmptyStr, UrlA})
StyleResps == Failures \cup {NotJson} \cup Bodies({BaseResp}, RespUrls)
ReviewResps == Failures \cup {NotJson} \cup Bodies({BaseResp, WithDeliverables}, RespUrls)
ResultResps == Failures \cup {NotJson} \cup Bodies(ResultProfiles, RespUrls)
FinalsResps == Failures \cup TextBodies \cup Bodies(FinalsProfiles, RespUrls)

\* JSON.parse on the text bodies of the model: the value, or SyntaxError
JSONparse(raw) ==
    CASE raw = <<"{", "}">>           -> "{}"
      [] raw = <<"[", "]">>           -> "[]"
      [] raw = <<"[", "{", "}", "]">> -> "[{}]"
      [] raw = <<"0">>                -> "0"
      [] OTHER                        -> "SyntaxError"
MinOf(S) == CHOOSE x \in S : \A y \in S : x <= y
MaxOf(S) == CHOOSE x \in S : \A y \in S : x >= y
\* JSON.parse(raw), else JSON.parse of the slice from the first '[' or '{'
\* to the last ']' or '}', else null
ParseRobust(raw) ==
    LET starts == {i \in DOMAIN raw : raw[i] \in {"[", "{"}}
        ends   == {i \in DOMAIN raw : raw[i] \in {"]", "}"}}
    IN IF JSONparse(raw) # "SyntaxError" THEN JSONparse(raw)
       ELSE IF starts # {} /\ ends # {} /\ MaxOf(ends) > MinOf(starts)
              /\ JSONparse(SubSeq(raw, MinOf(starts), MaxOf(ends))) # "SyntaxError"
         THEN JSONparse(SubSeq(raw, MinOf(starts), MaxOf(ends)))
       ELSE "null"
\* !data
Falsy(data) == data \in {"null", "0"}
\* lower-casing of a piece of text
LowerText(t) == IF t = "Workflow was started" \/ t = "WORKFLOW WAS STARTED"
                THEN "workflow was started" ELSE t
\* variant: the marker is looked for with its exact spelling
ContainsMarker_CaseSensitive(raw) ==
    \E i \in DOMAIN raw : raw[i] = "Workflow was started"
\* /Workflow was started/i.test(raw)
ContainsMarker(raw) ==
    \E i \in DOMAIN raw : LowerText(raw[i]) = "workflow was started"

\* String(x || '').toLowerCase() on the status values of the model
ToLower(st) == CASE st = NoStatus -> ""
                 [] st = "ERROR"  -> "error"
                 [] OTHER         -> st

\* the working object of a handler that unwraps a one-element list
\* (Array.isArray(data) ? data[0] : data); a text body has no fields
Root(resp) == IF resp.shape = "text" THEN BaseResp ELSE resp
\* the fields seen by a handler that reads the parsed value without
\* unwrapping (next.resumeUrl): a list has none of the object's fields
Direct(resp) == IF resp.shape = "obj" THEN resp ELSE BaseResp

\* ------------------------------------------------------------------ state
VARIABLES
    activeTab, resumeUrl, prompt, filesDocs, filesStyle,
    isTriggering, isUploadingStyle, isComposing, isSubmittingReview,
    status, images, message, deliverables, selected, imgFeedback,
    sendingImages, finalStatus, finalMessage, finalVideos,
    resultsAbortRef,   \* 0: null; -1: a controller whose fetch has settled;
                       \* n > 0: the controller of in-flight exchange n
    inflight           \* the exchanges awaiting their fetch

session == <<activeTab, resumeUrl, status, images, message, deliverables,
             finalStatus, finalMessage, finalVideos>>
inputs == <<prompt, filesDocs, filesStyle>>
maps == <<selected, imgFeedback>>
flags == <<isTriggering, isUploadingStyle, isComposing, isSubmittingReview,
           sendingImages>>
vars == <<session, inputs, maps, flags, resultsAbortRef, inflight>>

EmptyMap == [k \in {} |-> FALSE]

Init ==
    /\ activeTab = "trigger" /\ resumeUrl = EmptyStr
    /\ prompt = "" /\ filesDocs = <<>> /\ filesStyle = <<>>
    /\ isTriggering = FALSE /\ isUploadingStyle = FALSE
    /\ isComposing = FALSE /\ isSubmittingReview = FALSE
    /\ status = "idle" /\ images = <<>> /\ message = ""
    /\ deliverables = <<>>
    /\ selected = EmptyMap /\ imgFeedback = EmptyMap
    /\ sendingImages = FALSE
    /\ finalStatus = "idle" /\ finalMessage = "" /\ finalVideos = <<>>
    /\ resultsAbortRef = 0
    /\ inflight = {}

\* ----------------------------------------------------------- in-flight set
FreeIds == (1..MaxInFlight) \ {r.id : r \in inflight}
CanFetch == FreeIds # {}
NewId == CHOOSE i \in FreeIds : \A j \in FreeIds : i <= j

\* an exchange: the handler awaiting it (kind), the resumeUrl its closure
\* captured (url), the address the request was dispatched to (target), how
\* many requests its user action has issued so far (hop), whether its
\* AbortController was aborted, and for a Results fetch whether
\* sendBackToN8n awaits it (nested)
Exchange(id, kind, url, target, hop, nested) ==
    [id |-> id, kind |-> kind, url |-> url, target |-> target, hop |-> hop,
     aborted |-> FALSE, nested |-> nested, selections |-> <<>>]

\* variant: the effect adds no entry for a newly listed image
EffectSelected_NoInit(imgs, prev) ==
    IF imgs = <<>> THEN EmptyMap ELSE prev
\* useEffect(..., [images]) applied after a render that changed images
EffectSelected(imgs, prev) ==
    IF imgs = <<>> THEN EmptyMap
    ELSE [k \in DOMAIN prev \cup ImageKeys(imgs) |->
             IF k \in DOMAIN prev THEN prev[k] ELSE FALSE]
EffectFeedback(imgs, prev) ==
    IF imgs = <<>> THEN [k \in {} |-> ""]
    ELSE [k \in DOMAIN prev \cup ImageKeys(imgs) |->
             IF k \in DOMAIN prev THEN prev[k] ELSE ""]

\* setImages(imgs) followed by the effect of the next render
SetImages(imgs) ==
    /\ images' = imgs
    /\ selected' = EffectSelected(imgs, selected)
    /\ imgFeedback' = EffectFeedback(imgs, imgFeedback)

\* ---------------------------------------------------------------- trigger
TriggerWorkflow ==
    /\ activeTab = "trigger" /\ ~isTriggering
    /\ CanFetch
    /\ isTriggering' = TRUE
    /\ message' = ""
    /\ inflight' = inflight \cup
          {Exchange(NewId, "trigger", resumeUrl, TriggerUrl, 1, FALSE)}
    /\ UNCHANGED <<activeTab, resumeUrl, status, images, deliverables,
                   finalStatus, finalMessage, finalVideos, inputs, maps,
                   isUploadingStyle, isComposing, isSubmittingReview,
                   sendingImages, resultsAbortRef>>

\* variant: the trigger stores the proxied form of the returned address
TriggerSettled_StoresResolved(r, resp) ==
    /\ r \in inflight /\ r.kind = "trigger"
    /\ inflight' = inflight \ {r}
    /\ isTriggering' = FALSE
    /\ IF resp.http = "neterr"
         THEN message' = "Failed to fetch" /\ UNCHANGED <<resumeUrl, activeTab>>
       ELSE IF resp.http = "fail"
         THEN message' = "Trigger failed: 500" /\ UNCHANGED <<resumeUrl, activeTab>>
       ELSE IF resp.shape = "text"
         THEN message' = "Unexpected token" /\ UNCHANGED <<resumeUrl, activeTab>>
       ELSE IF Direct(resp).resumeUrl = EmptyStr
         THEN /\ message' = "No resume URL returned by webhook"
              /\ UNCHANGED <<resumeUrl, activeTab>>
       ELSE /\ resumeUrl' = toProxied(Direct(resp).resumeUrl)
            /\ activeTab' = "uploadStyle"
            /\ UNCHANGED message
    /\ UNCHANGED <<status, images, deliverables, finalStatus, finalMessage,
                   finalVideos, inputs, maps, isUploadingStyle, isComposing,
                   isSubmittingReview, sendingImages, resultsAbortRef>>

\* variant: a body without resumeUrl still advances to the Style Upload tab
TriggerSettled_AdvancesAnyway(r, resp) ==
    /\ r \in inflight /\ r.kind = "trigger"
    /\ inflight' = inflight \ {r}
    /\ isTriggering' = FALSE
    /\ IF resp.http = "neterr"
         THEN message' = "Failed to fetch" /\ UNCHANGED <<resumeUrl, activeTab>>
       ELSE IF resp.http = "fail"
         THEN message' = "Trigger failed: 500" /\ UNCHANGED <<resumeUrl, activeTab>>
       ELSE IF resp.shape = "text"
         THEN message' = "Unexpected token" /\ UNCHANGED <<resumeUrl, activeTab>>
       ELSE IF Direct(resp).resumeUrl = EmptyStr
         THEN /\ message' = "No resume URL returned by webhook"
              /\ activeTab' = "uploadStyle"
              /\ UNCHANGED resumeUrl
       ELSE /\ resumeUrl' = Direct(resp).resumeUrl
            /\ activeTab' = "uploadStyle"
            /\ UNCHANGED message
    /\ UNCHANGED <<status, images, deliverables, finalStatus, finalMessage,
                   finalVideos, inputs, maps, isUploadingStyle, isComposing,
                   isSubmittingReview, sendingImages, resultsAbortRef>>

TriggerSettled(r, resp) ==
    /\ r \in inflight /\ r.kind = "trigger"
    /\ inflight' = inflight \ {r}
    /\ isTriggering' = FALSE
    /\ IF resp.http = "neterr"
         THEN message' = "Failed to fetch" /\ UNCHANGED <<resumeUrl, activeTab>>
       ELSE IF resp.http = "fail"
         THEN message' = "Trigger failed: 500" /\ UNCHANGED <<resumeUrl, activeTab>>
       ELSE IF resp.shape = "text"
         THEN message' = "Unexpected token" /\ UNCHANGED <<resumeUrl, activeTab>>
       ELSE IF Direct(resp).resumeUrl = EmptyStr
         THEN /\ message' = "No resume URL returned by webhook"
              /\ UNCHANGED <<resumeUrl, activeTab>>
       ELSE /\ resumeUrl' = Direct(resp).resumeUrl
            /\ activeTab' = "uploadStyle"
            /\ UNCHANGED message
    /\ UNCHANGED <<status, images, deliverables, finalStatus, finalMessage,
                   finalVideos, inputs, maps, isUploadingStyle, isComposing,
                   isSubmittingReview, sendingImages, resultsAbortRef>>

\* ----------------------------------------------------------- style upload
OnPickStyle ==
    /\ activeTab = "uploadStyle"
    /\ filesStyle' = <<"style.png">>
    /\ filesStyle' # filesStyle
    /\ UNCHANGED <<session, prompt, filesDocs, maps, flags, resultsAbortRef, inflight>>

SubmitUploadStyle ==
    /\ activeTab = "uploadStyle" /\ ~isUploadingStyle /\ filesStyle # <<>>
    /\ resumeUrl # EmptyStr
    /\ CanFetch
    /\ isUploadingStyle' = TRUE
    /\ message' = ""
    /\ inflight' = inflight \cup
          {Exchange(NewId, "style", resumeUrl, toProxied(resumeUrl), 1, FALSE)}
    /\ UNCHANGED <<activeTab, resumeUrl, status, images, deliverables,
                   finalStatus, finalMessage, finalVideos, inputs, maps,
                   isTriggering, isComposing, isSubmittingReview,
                   sendingImages, resultsAbortRef>>

\* variant: a failed upload leaves isUploadingStyle set
StyleSettled_StaysBusy(r, resp) ==
    /\ r \in inflight /\ r.kind = "style"
    /\ inflight' = inflight \ {r}
    /\ IF resp.http = "neterr"
         THEN /\ message' = "Failed to fetch"
              /\ UNCHANGED <<resumeUrl, activeTab, isUploadingStyle>>
       ELSE IF resp.http = "fail"
         THEN /\ message' = "Upload failed: 500"
              /\ UNCHANGED <<resumeUrl, activeTab, isUploadingStyle>>
       ELSE /\ resumeUrl' = IF Direct(resp).resumeUrl # EmptyStr
                            THEN Direct(resp).resumeUrl ELSE resumeUrl
            /\ activeTab' = "compose"
            /\ isUploadingStyle' = FALSE
            /\ UNCHANGED message
    /\ UNCHANGED <<status, images, deliverables, finalStatus, finalMessage,
                   finalVideos, inputs, maps, isTriggering, isComposing,
                   isSubmittingReview, sendingImages, resultsAbortRef>>

StyleSettled(r, resp) ==
    /\ r \in inflight /\ r.kind = "style"
    /\ inflight' = inflight \ {r}
    /\ isUploadingStyle' = FALSE
    /\ IF resp.http = "neterr"
         THEN message' = "Failed to fetch" /\ UNCHANGED <<resumeUrl, activeTab>>
       ELSE IF resp.http = "fail"
         THEN message' = "Upload failed: 500" /\ UNCHANGED <<resumeUrl, activeTab>>
       ELSE /\ resumeUrl' = IF Direct(resp).resumeUrl # EmptyStr
                            THEN Direct(resp).resumeUrl ELSE resumeUrl
            /\ activeTab' = "compose"
            /\ UNCHANGED message
    /\ UNCHANGED <<status, images, deliverables, finalStatus, finalMessage,
                   finalVideos, inputs, maps, isTriggering, isComposing,
                   isSubmittingReview, sendingImages, resultsAbortRef>>

\* ---------------------------------------------------------------- compose
OnPickDocs ==
    /\ activeTab = "compose"
    /\ filesDocs' = <<"brief.pdf">>
    /\ filesDocs' # filesDocs
    /\ UNCHANGED <<session, prompt, filesStyle, maps, flags, resultsAbortRef, inflight>>

SetPrompt ==
    /\ activeTab = "compose"
    /\ prompt' = "p"
    /\ prompt' # prompt
    /\ UNCHANGED <<session, filesDocs, filesStyle, maps, flags, resultsAbortRef, inflight>>

SubmitCompose ==
    /\ activeTab = "compose" /\ ~isComposing /\ filesDocs # <<>> /\ Trim(prompt) # ""
    /\ resumeUrl # EmptyStr
    /\ CanFetch
    /\ isComposing' = TRUE
    /\ message' = ""
    /\ inflight' = inflight \cup
          {Exchange(NewId, "compose", resumeUrl, toProxied(resumeUrl), 1, FALSE)}
    /\ UNCHANGED <<activeTab, resumeUrl, status, images, deliverables,
                   finalStatus, finalMessage, finalVideos, inputs, maps,
                   isTriggering, isUploadingStyle, isSubmittingReview,
                   sendingImages, resultsAbortRef>>

ComposeSettled(r, resp) ==
    /\ r \in inflight /\ r.kind = "compose"
    /\ isComposing' = FALSE
    /\ IF resp.http # "ok"
         THEN /\ message' = IF resp.http = "neterr" THEN "Failed to fetch"
                            ELSE "Compose step failed: 500"
              /\ inflight' = inflight \ {r}
              /\ UNCHANGED <<resumeUrl, activeTab, deliverables, isSubmittingReview>>
       ELSE IF Root(resp).DELIVERABLES # None
         THEN \* maybeRoot.DELIVERABLES: adopt, normalize, go to Review, return
              /\ resumeUrl' = IF Root(resp).resumeUrl # EmptyStr
                              THEN Root(resp).resumeUrl ELSE resumeUrl
              /\ deliverables' = normalizeDeliverables(Root(resp).DELIVERABLES[1])
              /\ activeTab' = "review"
              /\ inflight' = inflight \ {r}
              /\ UNCHANGED <<message, isSubmittingReview>>
       ELSE \* next.resumeUrl (not unwrapped), go to Review, void fetchReview()
            /\ resumeUrl' = IF Direct(resp).resumeUrl # EmptyStr
                            THEN Direct(resp).resumeUrl ELSE resumeUrl
            /\ activeTab' = "review"
            /\ UNCHANGED deliverables
            /\ IF r.url = EmptyStr
                 THEN /\ inflight' = inflight \ {r}
                      /\ UNCHANGED <<message, isSubmittingReview>>
                 ELSE \* fetchReview of the render that ran submitCompose
                      /\ isSubmittingReview' = TRUE
                      /\ message' = ""
                      /\ inflight' = (inflight \ {r}) \cup
                            {Exchange(r.id, "review", r.url, toProxied(r.url),
                                      r.hop + 1, FALSE)}
    /\ UNCHANGED <<status, images, finalStatus, finalMessage, finalVideos,
                   inputs, maps, isTriggering, isUploadingStyle,
                   sendingImages, resultsAbortRef>>

\* ----------------------------------------------------------------- review
FetchReview ==
    /\ activeTab = "review" /\ resumeUrl # EmptyStr /\ ~isSubmittingReview
    /\ CanFetch
    /\ isSubmittingReview' = TRUE
    /\ message' = ""
    /\ inflight' = inflight \cup
          {Exchange(NewId, "review", resumeUrl, toProxied(resumeUrl), 1, FALSE)}
    /\ UNCHANGED <<activeTab, resumeUrl, status, images, deliverables,
                   finalStatus, finalMessage, finalVideos, inputs, maps,
                   isTriggering, isUploadingStyle, isComposing,
                   sendingImages, resultsAbortRef>>

\* variant: a body without DELIVERABLES makes the handler fetch again
ReviewSettled_Retries(r, resp) ==
    /\ r \in inflight /\ r.kind = "review"
    /\ IF resp.http # "ok"
         THEN /\ message' = IF resp.http = "neterr" THEN "Failed to fetch"
                            ELSE "Failed to fetch review payload: 500"
              /\ inflight' = inflight \ {r}
              /\ isSubmittingReview' = FALSE
              /\ UNCHANGED <<resumeUrl, activeTab, deliverables>>
       ELSE IF Root(resp).DELIVERABLES = None
         THEN /\ inflight' = (inflight \ {r}) \cup
                     {Exchange(r.id, "review", r.url, r.target, r.hop + 1, FALSE)}
              /\ UNCHANGED <<resumeUrl, activeTab, deliverables, message,
                             isSubmittingReview>>
       ELSE /\ resumeUrl' = IF Root(resp).resumeUrl # EmptyStr
                            THEN Root(resp).resumeUrl ELSE resumeUrl
            /\ deliverables' = normalizeDeliverables(Root(resp).DELIVERABLES[1])
            /\ activeTab' = "review"
            /\ inflight' = inflight \ {r}
            /\ isSubmittingReview' = FALSE
            /\ UNCHANGED message
    /\ UNCHANGED <<status, images, finalStatus, finalMessage, finalVideos,
                   inputs, maps, isTriggering, isUploadingStyle, isComposing,
                   sendingImages, resultsAbortRef>>
\* variant: a body without DELIVERABLES empties the stored deliverables
ReviewSettled_Clears(r, resp) ==
    /\ r \in inflight /\ r.kind = "review"
    /\ inflight' = inflight \ {r}
    /\ isSubmittingReview' = FALSE
    /\ IF resp.http # "ok"
         THEN /\ message' = IF resp.http = "neterr" THEN "Failed to fetch"
                            ELSE "Failed to fetch review payload: 500"
              /\ UNCHANGED <<resumeUrl, activeTab, deliverables>>
       ELSE IF Root(resp).DELIVERABLES = None
         THEN /\ message' = "No DELIVERABLES found in payload"
              /\ deliverables' = <<>>
              /\ UNCHANGED <<resumeUrl, activeTab>>
       ELSE /\ resumeUrl' = IF Root(resp).resumeUrl # EmptyStr
                            THEN Root(resp).resumeUrl ELSE resumeUrl
            /\ deliverables' = normalizeDeliverables(Root(resp).DELIVERABLES[1])
            /\ activeTab' = "review"
            /\ UNCHANGED message
    /\ UNCHANGED <<status, images, finalStatus, finalMessage, finalVideos,
                   inputs, maps, isTriggering, isUploadingStyle, isComposing,
                   sendingImages, resultsAbortRef>>
ReviewSettled(r, resp) ==
    /\ r \in inflight /\ r.kind = "review"
    /\ inflight' = inflight \ {r}
    /\ isSubmittingReview' = FALSE
    /\ IF resp.http # "ok"
         THEN /\ message' = IF resp.http = "neterr" THEN "Failed to fetch"
                            ELSE "Failed to fetch review payload: 500"
              /\ UNCHANGED <<resumeUrl, activeTab, deliverables>>
       ELSE IF Root(resp).DELIVERABLES = None
         THEN /\ message' = "No DELIVERABLES found in payload"
              /\ UNCHANGED <<resumeUrl, activeTab, deliverables>>
       ELSE /\ resumeUrl' = IF Root(resp).resumeUrl # EmptyStr
                            THEN Root(resp).resumeUrl ELSE resumeUrl
            /\ deliverables' = normalizeDeliverables(Root(resp).DELIVERABLES[1])
            /\ activeTab' = "review"
            /\ UNCHANGED message
    /\ UNCHANGED <<status, images, finalStatus, finalMessage, finalVideos,
                   inputs, maps, isTriggering, isUploadingStyle, isComposing,
                   sendingImages, resultsAbortRef>>

\* variant: a new Results fetch does not abort the previous one
AbortCurrent_NoAbort(fl) == fl
\* resultsAbortRef.current?.abort(): the in-flight Results fetch that owns
\* the current controller is aborted
AbortCurrent(fl) ==
    {IF x.id = resultsAbortRef THEN [x EXCEPT !.aborted = TRUE] ELSE x : x \in fl}

SendBackToN8n ==
    /\ activeTab = "review" /\ resumeUrl # EmptyStr /\ deliverables # <<>>
    /\ ~isSubmittingReview
    /\ CanFetch
    /\ isSubmittingReview' = TRUE
    /\ message' = ""
    /\ inflight' = inflight \cup
          {Exchange(NewId, "submit", resumeUrl, toProxied(resumeUrl), 1, FALSE)}
    /\ UNCHANGED <<activeTab, resumeUrl, status, images, deliverables,
                   finalStatus, finalMessage, finalVideos, inputs, maps,
                   isTriggering, isUploadingStyle, isComposing,
                   sendingImages, resultsAbortRef>>

\* variant: an explicit error state does not end the handler
SubmitOutcome_NoError(imgs, st) ==
    IF imgs # <<>> THEN "images"
    ELSE IF st = "done" THEN "done"
    ELSE "poll"
\* variant: an explicit done state does not end the handler
SubmitOutcome_NoDone(imgs, st) ==
    IF imgs # <<>> THEN "images"
    ELSE IF st = "error" THEN "error"
    ELSE "poll"
\* the if-chain of sendBackToN8n after the body is read: images first, then
\* the explicit states, else the polling fallback
SubmitOutcome(imgs, st) ==
    IF imgs # <<>> THEN "images"
    ELSE IF st = "done" THEN "done"
    ELSE IF st = "error" THEN "error"
    ELSE "poll"

SubmitSettled(r, resp) ==
    /\ r \in inflight /\ r.kind = "submit"
    /\ LET root == Root(resp)
           imgs == normalizeImages(root.images)
           msg  == root.message
           st   == ToLower(root.status)
           adopted == IF root.resumeUrl # EmptyStr THEN root.resumeUrl ELSE resumeUrl
       IN
       IF resp.http # "ok"
         THEN /\ message' = IF resp.http = "neterr" THEN "Failed to fetch"
                            ELSE "Failed to submit review: 500"
              /\ isSubmittingReview' = FALSE
              /\ inflight' = inflight \ {r}
              /\ UNCHANGED <<resumeUrl, activeTab, status, images, maps, resultsAbortRef>>
       ELSE IF SubmitOutcome(imgs, st) = "images"
         THEN /\ resumeUrl' = adopted
              /\ SetImages(imgs)
              /\ status' = "done"
              /\ message' = IF msg # "" THEN msg ELSE message
              /\ activeTab' = "results"
              /\ isSubmittingReview' = FALSE
              /\ inflight' = inflight \ {r}
              /\ UNCHANGED resultsAbortRef
       ELSE IF SubmitOutcome(imgs, st) = "done"
         THEN /\ resumeUrl' = adopted
              /\ status' = "done"
              /\ message' = IF msg # "" THEN msg ELSE message
              /\ activeTab' = "results"
              /\ isSubmittingReview' = FALSE
              /\ inflight' = inflight \ {r}
              /\ UNCHANGED <<images, maps, resultsAbortRef>>
       ELSE IF SubmitOutcome(imgs, st) = "error"
         THEN /\ resumeUrl' = adopted
              /\ status' = "error"
              /\ message' = IF msg # "" THEN msg ELSE "An error occurred in the workflow"
              /\ activeTab' = "results"
              /\ isSubmittingReview' = FALSE
              /\ inflight' = inflight \ {r}
              /\ UNCHANGED <<images, maps, resultsAbortRef>>
       ELSE \* setActiveTab('results'); await fetchResults() of the render
            \* that ran sendBackToN8n
            /\ resumeUrl' = adopted
            /\ activeTab' = "results"
            /\ UNCHANGED <<images, maps, message>>
            /\ IF r.url = EmptyStr
                 THEN /\ isSubmittingReview' = FALSE
                      /\ inflight' = inflight \ {r}
                      /\ UNCHANGED <<status, resultsAbortRef>>
                 ELSE /\ status' = "pending"
                      /\ resultsAbortRef' = r.id
                      /\ inflight' = AbortCurrent(inflight \ {r}) \cup
                            {Exchange(r.id, "poll", r.url, toProxied(r.url),
                                      r.hop + 1, TRUE)}
                      /\ UNCHANGED isSubmittingReview
    /\ UNCHANGED <<deliverables, finalStatus, finalMessage, finalVideos,
                   inputs, isTriggering, isUploadingStyle, isComposing,
                   sendingImages>>

\* ---------------------------------------------------------------- results
\* Refresh button: disabled={!resumeUrl || status === 'pending'}
RefreshEnabled == resumeUrl # EmptyStr /\ status # "pending"

FetchResults ==
    /\ activeTab = "results" /\ RefreshEnabled
    /\ CanFetch
    /\ status' = "pending"
    /\ resultsAbortRef' = NewId
    /\ inflight' = AbortCurrent(inflight) \cup
          {Exchange(NewId, "poll", resumeUrl, toProxied(resumeUrl), 1, FALSE)}
    /\ UNCHANGED <<activeTab, resumeUrl, images, message, deliverables,
                   finalStatus, finalMessage, finalVideos, inputs, maps, flags>>

\* the fetch of an aborted controller rejects with AbortError: the catch
\* returns without touching the state; sendBackToN8n, when it awaits this
\* call, then runs its finally
PollAborted(r) ==
    /\ r \in inflight /\ r.kind = "poll" /\ r.aborted
    /\ inflight' = inflight \ {r}
    /\ isSubmittingReview' = IF r.nested THEN FALSE ELSE isSubmittingReview
    /\ UNCHANGED <<session, inputs, maps, isTriggering, isUploadingStyle,
                   isComposing, sendingImages, resultsAbortRef>>

\* variant: a response without images stores its empty list, as
\* setImages(Array.isArray(data.images) ? data.images : []) would
PollSettled_StoresAny(r, resp) ==
    /\ r \in inflight /\ r.kind = "poll" /\ ~r.aborted
    /\ inflight' = inflight \ {r}
    /\ resultsAbortRef' = IF resultsAbortRef = r.id THEN -1 ELSE resultsAbortRef
    /\ isSubmittingReview' = IF r.nested THEN FALSE ELSE isSubmittingReview
    /\ LET schema == resp.shape = "obj" /\ resp.status # NoStatus
           root   == Root(resp)
           imgs   == normalizeImages(root.images)
           msg    == root.message
           st     == ToLower(root.status)
           state  == IF schema
                     THEN (IF st = "done" THEN "done"
                           ELSE IF st = "error" THEN "error" ELSE "pending")
                     ELSE (IF root.ok THEN "done" ELSE "undefined")
       IN
       IF resp.http # "ok"
         THEN /\ status' = "error"
              /\ message' = IF resp.http = "neterr" THEN "Failed to fetch"
                            ELSE "Polling error: 500"
              /\ UNCHANGED <<resumeUrl, images, maps>>
       ELSE /\ resumeUrl' = IF ~schema /\ root.resumeUrl # EmptyStr
                            THEN root.resumeUrl ELSE resumeUrl
            /\ IF state = "error"
                 THEN /\ status' = "error"
                      /\ message' = IF msg # "" THEN msg
                                    ELSE "An error occurred in the workflow"
                      /\ UNCHANGED <<images, maps>>
               ELSE IF imgs # <<>>
                 THEN /\ SetImages(imgs)
                      /\ status' = "done"
                      /\ message' = IF msg # "" THEN msg ELSE message
               ELSE /\ status' = IF state = "undefined" THEN "pending" ELSE state
                    /\ message' = IF msg = "" THEN "Waiting for images from n8n..."
                                  ELSE message
                    /\ SetImages(imgs)
    /\ UNCHANGED <<activeTab, deliverables, finalStatus, finalMessage, finalVideos,
                   inputs, isTriggering, isUploadingStyle, isComposing,
                   sendingImages>>
PollSettled(r, resp) ==
    /\ r \in inflight /\ r.kind = "poll" /\ ~r.aborted
    /\ inflight' = inflight \ {r}
    /\ resultsAbortRef' = IF resultsAbortRef = r.id THEN -1 ELSE resultsAbortRef
    /\ isSubmittingReview' = IF r.nested THEN FALSE ELSE isSubmittingReview
    /\ LET schema == resp.shape = "obj" /\ resp.status # NoStatus
           root   == Root(resp)
           imgs   == normalizeImages(root.images)
           msg    == root.message
           st     == ToLower(root.status)
           state  == IF schema
                     THEN (IF st = "done" THEN "done"
                           ELSE IF st = "error" THEN "error" ELSE "pending")
                     ELSE (IF root.ok THEN "done" ELSE "undefined")
       IN
       IF resp.http # "ok"
         THEN /\ status' = "error"
              /\ message' = IF resp.http = "neterr" THEN "Failed to fetch"
                            ELSE "Polling error: 500"
              /\ UNCHANGED <<resumeUrl, images, maps>>
       ELSE /\ resumeUrl' = IF ~schema /\ root.resumeUrl # EmptyStr
                            THEN root.resumeUrl ELSE resumeUrl
            /\ IF state = "error"
                 THEN /\ status' = "error"
                      /\ message' = IF msg # "" THEN msg
                                    ELSE "An error occurred in the workflow"
                      /\ UNCHANGED <<images, maps>>
               ELSE IF imgs # <<>>
                 THEN /\ SetImages(imgs)
                      /\ status' = "done"
                      /\ message' = IF msg # "" THEN msg ELSE message
               ELSE /\ status' = IF state = "undefined" THEN "pending" ELSE state
                    /\ message' = IF msg = "" THEN "Waiting for images from n8n..."
                                  ELSE message
                    /\ UNCHANGED <<images, maps>>
    /\ UNCHANGED <<activeTab, deliverables, finalStatus, finalMessage, finalVideos,
                   inputs, isTriggering, isUploadingStyle, isComposing,
                   sendingImages>>

\* images.map(...).filter(Boolean): one entry per selected image, in order
RECURSIVE SelectionsFrom(_, _, _, _)
SelectionsFrom(imgs, sel, fb, i) ==
    IF i > Len(imgs) THEN <<>>
    ELSE LET k == imgKey(imgs[i], i - 1)
             isSel == k \in DOMAIN sel /\ sel[k]
             text == IF k \in DOMAIN fb THEN fb[k] ELSE ""
         IN (IF isSel
             THEN <<[image |-> imgs[i], feedback |-> Trim(text), index |-> i - 1]>>
             ELSE <<>>) \o SelectionsFrom(imgs, sel, fb, i + 1)
\* variant: every listed image is sent, selected or not
Selections_All ==
    SelectionsFrom(images, [k \in ImageKeys(images) |-> TRUE], imgFeedback, 1)
Selections == SelectionsFrom(images, selected, imgFeedback, 1)

SendSelectedImagesBack ==
    /\ activeTab = "results" /\ resumeUrl # EmptyStr /\ ~sendingImages
    /\ IF Selections = <<>>
         THEN /\ message' = "Select at least one image before sending."
              /\ UNCHANGED <<sendingImages, status, inflight>>
         ELSE /\ CanFetch
              /\ sendingImages' = TRUE
              /\ message' = ""
              /\ status' = "pending"
              /\ inflight' = inflight \cup
                    {[Exchange(NewId, "send", resumeUrl, toProxied(resumeUrl), 1, FALSE)
                        EXCEPT !.selections = Selections]}
    /\ UNCHANGED <<activeTab, resumeUrl, images, deliverables, finalStatus,
                   finalMessage, finalVideos, inputs, maps, isTriggering,
                   isUploadingStyle, isComposing, isSubmittingReview,
                   resultsAbortRef>>

SendSettled(r, resp) ==
    /\ r \in inflight /\ r.kind = "send"
    /\ inflight' = inflight \ {r}
    /\ sendingImages' = FALSE
    /\ LET root == Root(resp)
           imgs == normalizeImages(root.images)
           msg  == root.message
           st   == ToLower(root.status)
       IN
       IF resp.http # "ok"
         THEN /\ status' = "error"
              /\ message' = IF resp.http = "neterr" THEN "Failed to fetch"
                            ELSE "n8n responded 500."
              /\ UNCHANGED <<resumeUrl, activeTab, images, maps>>
       ELSE /\ resumeUrl' = IF root.resumeUrl # EmptyStr THEN root.resumeUrl
                            ELSE resumeUrl
            /\ IF st = "error"
                 THEN /\ status' = "error"
                      /\ message' = IF msg # "" THEN msg
                                    ELSE "Workflow reported an error."
                      /\ UNCHANGED <<activeTab, images, maps>>
               ELSE IF imgs # <<>>
                 THEN /\ SetImages(imgs)
                      /\ status' = "done"
                      /\ message' = IF msg # "" THEN msg ELSE message
                      /\ activeTab' = "results"
               ELSE /\ status' = "pending"
                    /\ message' = IF msg # "" THEN msg
                                  ELSE "Waiting for images from n8n..."
                    /\ UNCHANGED <<activeTab, images, maps>>
    /\ UNCHANGED <<deliverables, finalStatus, finalMessage, finalVideos, inputs,
                   isTriggering, isUploadingStyle, isComposing,
                   isSubmittingReview, resultsAbortRef>>

\* ----------------------------------------------------------------- finals
\* pickList(val): a list gives its non-empty elements as strings, an absent
\* field gives []
pickList(val) == IF val = None THEN <<>> ELSE FilterNonEmpty(val[1])

\* JavaScript a || b: b only when a is falsy; every array, [] included, is
\* truthy
OrElse(a, b) == a

SendImagesForFinals ==
    /\ activeTab = "results" /\ resumeUrl # EmptyStr /\ finalStatus # "pending"
    /\ IF Selections = <<>>
         THEN /\ message' = "Select at least one image before sending."
              /\ UNCHANGED <<activeTab, finalStatus, finalMessage, inflight>>
         ELSE /\ CanFetch
              /\ activeTab' = "finals"
              /\ finalStatus' = "pending"
              /\ finalMessage' = "Generating videos from selected images..."
              /\ inflight' = inflight \cup
                    {[Exchange(NewId, "finals", resumeUrl, toProxied(resumeUrl), 1, FALSE)
                        EXCEPT !.selections = Selections]}
              /\ UNCHANGED message
    /\ UNCHANGED <<resumeUrl, status, images, deliverables, finalVideos, inputs,
                   maps, flags, resultsAbortRef>>

\* variant: ok alone does not end the Finals step
FinalsDone_NoOk(videos, ok, st) == videos # <<>> \/ st = "done"
\* (videos && videos.length > 0) || ok || st === 'done'
FinalsDone(videos, ok, st) == videos # <<>> \/ ok \/ st = "done"

FinalsSettled(r, resp) ==
    /\ r \in inflight /\ r.kind = "finals"
    /\ inflight' = inflight \ {r}
    /\ LET root   == Root(resp)
           videos == OrElse(pickList(root.videos), OrElse(pickList(root.media), <<>>))
           msg    == root.message
           st     == ToLower(root.status)
       IN
       IF resp.http = "neterr"
         THEN /\ finalStatus' = "error"
              /\ finalMessage' = "Failed to fetch"
              /\ UNCHANGED <<resumeUrl, finalVideos>>
       ELSE IF resp.http = "fail"
         THEN /\ finalStatus' = "error"
              /\ finalMessage' = "n8n responded 500."
              /\ UNCHANGED <<resumeUrl, finalVideos>>
       ELSE IF resp.shape = "text" /\ Falsy(ParseRobust(resp.raw))
         THEN /\ finalStatus' = "error"
              /\ finalMessage' = IF ContainsMarker(resp.raw)
                                 THEN "Got 'Workflow was started'. Ensure POST hits /webhook-wait/ and Webhook uses 'Respond to Webhook'."
                                 ELSE "Could not parse response JSON from n8n."
              /\ UNCHANGED <<resumeUrl, finalVideos>>
       ELSE /\ resumeUrl' = IF LooksLikeAddress(root.resumeUrl)
                            THEN root.resumeUrl ELSE resumeUrl
            /\ IF FinalsDone(videos, root.ok, st)
                 THEN /\ finalVideos' = videos
                      /\ finalStatus' = "done"
                      /\ finalMessage' =
                            IF msg # "" THEN msg
                            ELSE IF videos # <<>> THEN "Received n video(s)."
                            ELSE "Done."
                 ELSE /\ finalStatus' = "pending"
                      /\ finalMessage' = IF msg # "" THEN msg
                                         ELSE "Waiting for videos from n8n..."
                      /\ UNCHANGED finalVideos
    /\ UNCHANGED <<activeTab, status, images, message, deliverables, inputs,
                   maps, flags, resultsAbortRef>>

\* ------------------------------------------------------------------ reset
\* variant: reset leaves the picked style files in place
ResetAll_KeepsFiles ==
    /\ activeTab \in {"review", "results", "finals"}
    /\ prompt' = "" /\ filesDocs' = <<>>
    /\ deliverables' = <<>>
    /\ images' = <<>>
    /\ selected' = EmptyMap
    /\ imgFeedback' = [k \in {} |-> ""]
    /\ status' = "idle" /\ message' = ""
    /\ finalVideos' = <<>> /\ finalStatus' = "idle" /\ finalMessage' = ""
    /\ resumeUrl' = EmptyStr
    /\ activeTab' = "trigger"
    /\ UNCHANGED <<filesStyle, flags, resultsAbortRef, inflight>>
\* New Run button of the Review, Results and Finals tabs
ResetAll ==
    /\ activeTab \in {"review", "results", "finals"}
    /\ prompt' = "" /\ filesDocs' = <<>> /\ filesStyle' = <<>>
    /\ deliverables' = <<>>
    /\ images' = <<>>
    /\ selected' = EffectSelected(<<>>, EmptyMap)
    /\ imgFeedback' = EffectFeedback(<<>>, [k \in {} |-> ""])
    /\ status' = "idle" /\ message' = ""
    /\ finalVideos' = <<>> /\ finalStatus' = "idle" /\ finalMessage' = ""
    /\ resumeUrl' = EmptyStr
    /\ activeTab' = "trigger"
    /\ UNCHANGED <<flags, resultsAbortRef, inflight>>

\* ------------------------------------------------- tabs and image controls
\* Tabs onValueChange={setActiveTab}; every trigger but the first is
\* disabled while resumeUrl is empty
SelectTab(t) ==
    /\ t \in TabSet /\ t # activeTab
    /\ t = "trigger" \/ resumeUrl # EmptyStr
    /\ activeTab' = t
    /\ UNCHANGED <<resumeUrl, status, images, message, deliverables,
                   finalStatus, finalMessage, finalVideos, inputs, maps, flags,
                   resultsAbortRef, inflight>>

\* the controls of the image cards exist while the grid is rendered
GridShown == activeTab = "results" /\ status = "done" /\ images # <<>>

ToggleSelected(k) ==
    /\ GridShown /\ k \in ImageKeys(images)
    /\ LET checked == k \in DOMAIN selected /\ selected[k]
       IN selected' = [x \in DOMAIN selected \cup {k} |->
                          IF x = k THEN ~checked ELSE selected[x]]
    /\ UNCHANGED <<session, inputs, imgFeedback, flags, resultsAbortRef, inflight>>

FeedbackTexts == {"", " f "}

EditFeedback(k, text) ==
    /\ GridShown /\ k \in ImageKeys(images)
    /\ text \in FeedbackTexts
    /\ text # (IF k \in DOMAIN imgFeedback THEN imgFeedback[k] ELSE "")
    /\ imgFeedback' = [x \in DOMAIN imgFeedback \cup {k} |->
                          IF x = k THEN text ELSE imgFeedback[x]]
    /\ UNCHANGED <<session, inputs, selected, flags, resultsAbortRef, inflight>>

\* ------------------------------------------------------------ specification
AllKeys == {imgKey(s, i) : s \in {"a", "b"}, i \in 0..MaxImages}

\* The program under the unrestricted environment: any gesture the enabled
\* controls allow, any response.
Next ==
    \/ TriggerWorkflow
    \/ \E r \in inflight : \E resp \in TriggerResps : TriggerSettled(r, resp)
    \/ OnPickStyle
    \/ SubmitUploadStyle
    \/ \E r \in inflight : \E resp \in StyleResps : StyleSettled(r, resp)
    \/ OnPickDocs
    \/ SetPrompt
    \/ SubmitCompose
    \/ \E r \in inflight : \E resp \in ReviewResps : ComposeSettled(r, resp)
    \/ FetchReview
    \/ \E r \in inflight : \E resp \in ReviewResps : ReviewSettled(r, resp)
    \/ SendBackToN8n
    \/ \E r \in inflight : \E resp \in ResultResps : SubmitSettled(r, resp)
    \/ FetchResults
    \/ \E r \in inflight : PollAborted(r)
    \/ \E r \in inflight : \E resp \in ResultResps : PollSettled(r, resp)
    \/ SendSelectedImagesBack
    \/ \E r \in inflight : \E resp \in ResultResps : SendSettled(r, resp)
    \/ SendImagesForFinals
    \/ \E r \in inflight : \E resp \in FinalsResps : FinalsSettled(r, resp)
    \/ ResetAll
    \/ \E t \in TabSet : SelectTab(t)
    \/ \E k \in AllKeys : ToggleSelected(k)
    \/ \E k \in AllKeys : \E text \in FeedbackTexts : EditFeedback(k, text)

Spec == Init /\ [][Next]_vars

(***************************************************************************)
(* The reachable states of Spec are beyond exhaustive search, so the      *)
(* properties are checked under three restrictions of the environment     *)
(* (the operator and the server); the handlers are the ones above.        *)
(***************************************************************************)

\* SpecSeq: every handler of the component.  The operator starts an exchange
\* only when none is outstanding (tab changes, form input and New Run stay
\* free at any time); bodies vary in shape and in resumeUrl.
Quiet == inflight = {}
Fail == [BaseResp EXCEPT !.http = "fail"]
SeqTrigger == {Fail} \cup Bodies({BaseResp}, {EmptyStr, UrlA})
SeqStyle == {Fail} \cup Bodies({BaseResp}, RespUrls)
SeqReview == {Fail} \cup Bodies({BaseResp, WithDeliverables}, RespUrls)
SeqResult ==
    {Fail} \cup Bodies({BaseResp, [BaseResp EXCEPT !.images = <<"a">>],
                        [BaseResp EXCEPT !.status = "done"],
                        [BaseResp EXCEPT !.status = "ERROR"]}, RespUrls)
SeqFinals ==
    {Fail} \cup Bodies({BaseResp, [BaseResp EXCEPT !.videos = Some(<<"x">>)]}, RespUrls)

NextSeq ==
    \/ Quiet /\ TriggerWorkflow
    \/ \E r \in inflight : \E resp \in SeqTrigger : TriggerSettled(r, resp)
    \/ OnPickStyle
    \/ Quiet /\ SubmitUploadStyle
    \/ \E r \in inflight : \E resp \in SeqStyle : StyleSettled(r, resp)
    \/ OnPickDocs
    \/ SetPrompt
    \/ Quiet /\ SubmitCompose
    \/ \E r \in inflight : \E resp \in SeqReview : ComposeSettled(r, resp)
    \/ Quiet /\ FetchReview
    \/ \E r \in inflight : \E resp \in SeqReview : ReviewSettled(r, resp)
    \/ Quiet /\ SendBackToN8n
    \/ \E r \in inflight : \E resp \in SeqResult : SubmitSettled(r, resp)
    \/ Quiet /\ FetchResults
    \/ \E r \in inflight : \E resp \in SeqResult : PollSettled(r, resp)
    \/ Quiet /\ SendSelectedImagesBack
    \/ \E r \in inflight : \E resp \in SeqResult : SendSettled(r, resp)
    \/ Quiet /\ SendImagesForFinals
    \/ \E r \in inflight : \E resp \in SeqFinals : FinalsSettled(r, resp)
    \/ ResetAll
    \/ \E t \in TabSet : SelectTab(t)
    \/ \E k \in AllKeys : ToggleSelected(k)

SpecSeq == Init /\ [][NextSeq]_vars

\* SpecRace: the Results tab with up to MaxInFlight exchanges outstanding.
\* The operator triggers, changes tabs, polls, selects, sends back and
\* resets; bodies carry every result profile, with and without a resumeUrl.
\* Only the Trigger and Results tabs are visited.
RaceTabs == {"trigger", "results"}
RaceResult == Failures \cup {NotJson} \cup Bodies(ResultProfiles, {EmptyStr, UrlB})

NextRace ==
    \/ TriggerWorkflow
    \/ \E r \in inflight : \E resp \in SeqTrigger : TriggerSettled(r, resp)
    \/ FetchResults
    \/ \E r \in inflight : PollAborted(r)
    \/ \E r \in inflight : \E resp \in RaceResult : PollSettled(r, resp)
    \/ SendSelectedImagesBack
    \/ \E r \in inflight : \E resp \in RaceResult : SendSettled(r, resp)
    \/ ResetAll
    \/ \E t \in RaceTabs : SelectTab(t)
    \/ \E k \in AllKeys : ToggleSelected(k)

SpecRace == Init /\ [][NextRace]_vars

\* SpecImages: the image list and its two maps.  As SpecRace, plus the
\* feedback boxes; bodies carry no resumeUrl.
ImagesResult == Failures \cup Bodies(ResultProfiles, {EmptyStr})

NextImages ==
    \/ TriggerWorkflow
    \/ \E r \in inflight : \E resp \in SeqTrigger : TriggerSettled(r, resp)
    \/ FetchResults
    \/ \E r \in inflight : PollAborted(r)
    \/ \E r \in inflight : \E resp \in ImagesResult : PollSettled(r, resp)
    \/ SendSelectedImagesBack
    \/ \E r \in inflight : \E resp \in ImagesResult : SendSettled(r, resp)
    \/ ResetAll
    \/ \E t \in RaceTabs : SelectTab(t)
    \/ \E k \in AllKeys : ToggleSelected(k)
    \/ \E k \in AllKeys : \E text \in FeedbackTexts : EditFeedback(k, text)

SpecImages == Init /\ [][NextImages]_vars

\* SpecFinals: the Finals request with up to MaxInFlight exchanges
\* outstanding.  The operator triggers, polls, selects, requests the
\* finals, changes tabs and resets; polls answer with one image, the Finals
\* request with every finals profile.
FinalsTabs == {"trigger", "results", "finals"}
FinalsPoll == {Fail} \cup Bodies({[BaseResp EXCEPT !.images = <<"a">>]}, {EmptyStr})
FinalsBodies == Failures \cup TextBodies \cup Bodies(FinalsProfiles, {EmptyStr})

NextFinals ==
    \/ TriggerWorkflow
    \/ \E r \in inflight : \E resp \in SeqTrigger : TriggerSettled(r, resp)
    \/ FetchResults
    \/ \E r \in inflight : PollAborted(r)
    \/ \E r \in inflight : \E resp \in FinalsPoll : PollSettled(r, resp)
    \/ SendImagesForFinals
    \/ \E r \in inflight : \E resp \in FinalsBodies : FinalsSettled(r, resp)
    \/ ResetAll
    \/ \E t \in FinalsTabs : SelectTab(t)
    \/ \E k \in AllKeys : ToggleSelected(k)

SpecFinals == Init /\ [][NextFinals]_vars

\* SpecLive: every handler, the operator starting an exchange only when none
\* is outstanding, with one failure and one or two successful bodies per
\* handler.  Every request is answered or fails in the end: each
\* continuation is weakly fair.
LiveTrigger == {Fail, [BaseResp EXCEPT !.resumeUrl = UrlA]}
LiveStyle == {Fail, BaseResp}
LiveReview == {Fail, BaseResp, WithDeliverables}
LiveResult == {Fail, BaseResp, [BaseResp EXCEPT !.images = <<"a">>]}
LiveFinals == {Fail, BaseResp}

TriggerAnswered == \E r \in inflight : \E resp \in LiveTrigger : TriggerSettled(r, resp)
StyleAnswered == \E r \in inflight : \E resp \in LiveStyle : StyleSettled(r, resp)
ComposeAnswered == \E r \in inflight : \E resp \in LiveReview : ComposeSettled(r, resp)
ReviewAnswered == \E r \in inflight : \E resp \in LiveReview : ReviewSettled(r, resp)
SubmitAnswered == \E r \in inflight : \E resp \in LiveResult : SubmitSettled(r, resp)
PollAnswered == \E r \in inflight : \E resp \in LiveResult : PollSettled(r, resp)
SendAnswered == \E r \in inflight : \E resp \in LiveResult : SendSettled(r, resp)
FinalsAnswered == \E r \in inflight : \E resp \in LiveFinals : FinalsSettled(r, resp)

NextLive ==
    \/ Quiet /\ TriggerWorkflow
    \/ TriggerAnswered
    \/ OnPickStyle
    \/ Quiet /\ SubmitUploadStyle
    \/ StyleAnswered
    \/ OnPickDocs
    \/ SetPrompt
    \/ Quiet /\ SubmitCompose
    \/ ComposeAnswered
    \/ Quiet /\ FetchReview
    \/ ReviewAnswered
    \/ Quiet /\ SendBackToN8n
    \/ SubmitAnswered
    \/ Quiet /\ FetchResults
    \/ PollAnswered
    \/ Quiet /\ SendSelectedImagesBack
    \/ SendAnswered
    \/ Quiet /\ SendImagesForFinals
    \/ FinalsAnswered
    \/ ResetAll
    \/ \E t \in TabSet : SelectTab(t)
    \/ \E k \in AllKeys : ToggleSelected(k)

Fairness ==
    /\ WF_vars(TriggerAnswered) /\ WF_vars(StyleAnswered)
    /\ WF_vars(ComposeAnswered) /\ WF_vars(ReviewAnswered)
    /\ WF_vars(SubmitAnswered) /\ WF_vars(PollAnswered)
    /\ WF_vars(SendAnswered)
    /\ WF_vars(FinalsAnswered)

SpecLive == Init /\ [][NextLive]_vars /\ Fairness

\* SpecSelect: selecting images and sending them.  The operator triggers,
\* polls, ticks images, writes feedback, sends the selection back or asks
\* for the finals, and resets, starting an exchange only when none is
\* outstanding; polls and sends answer with one or two images.
SelectResult ==
    {Fail} \cup Bodies({BaseResp, [BaseResp EXCEPT !.images = <<" a ", "b">>]}, {EmptyStr})
SelectFinals == {Fail, BaseResp}

NextSelect ==
    \/ Quiet /\ TriggerWorkflow
    \/ \E r \in inflight : \E resp \in LiveTrigger : TriggerSettled(r, resp)
    \/ Quiet /\ FetchResults
    \/ \E r \in inflight : \E resp \in SelectResult : PollSettled(r, resp)
    \/ Quiet /\ SendSelectedImagesBack
    \/ \E r \in inflight : \E resp \in SelectResult : SendSettled(r, resp)
    \/ Quiet /\ SendImagesForFinals
    \/ \E r \in inflight : \E resp \in SelectFinals : FinalsSettled(r, resp)
    \/ ResetAll
    \/ \E t \in FinalsTabs : SelectTab(t)
    \/ \E k \in AllKeys : ToggleSelected(k)
    \/ \E k \in AllKeys : \E text \in FeedbackTexts : EditFeedback(k, text)

SpecSelect == Init /\ [][NextSelect]_vars

\* --------------------------------------------------------------------------
\* The Resolver over a wider set of addresses: the engine supplies absolute
\* addresses with and without path and query, relative ones with and without
\* leading slash, already prefixed ones and one that only begins with the
\* characters of the prefix; trigger, style upload and Results refresh run
\* one at a time.
ResolveUrls ==
    {UrlA, UrlB,
     <<ORIGIN>>,
     <<ORIGIN, "?", "q">>,
     <<ORIGIN, "/", "a", "p", "i", "/", "x">>,
     <<"/", "a", "p", "i", "/", "w", "3">>,
     <<"/", "a", "p", "i", "x", "/", "y">>,
     <<"a", "p", "i", "/", "x">>,
     <<"w", "4">>}
ResolveTrigger == {Fail} \cup {[BaseResp EXCEPT !.resumeUrl = u] : u \in ResolveUrls}
ResolveNext ==
    {Fail} \cup {[BaseResp EXCEPT !.resumeUrl = u] : u \in ResolveUrls \cup {EmptyStr}}
ResolveTabs == {"uploadStyle", "results"}

NextResolve ==
    \/ Quiet /\ TriggerWorkflow
    \/ \E r \in inflight : \E resp \in ResolveTrigger : TriggerSettled(r, resp)
    \/ OnPickStyle
    \/ Quiet /\ SubmitUploadStyle
    \/ \E r \in inflight : \E resp \in ResolveNext : StyleSettled(r, resp)
    \/ Quiet /\ FetchResults
    \/ \E r \in inflight : \E resp \in ResolveNext : PollSettled(r, resp)
    \/ ResetAll
    \/ \E t \in ResolveTabs : SelectTab(t)

SpecResolve == Init /\ [][NextResolve]_vars

\* --------------------------------------------------------------------------
\* The image-list coercion over lists and strings: the Results refresh is
\* answered with an images field that is a native list, the JSON text of
\* such a list, or another string, and stores what normalizeImages returns.
CharsOf(x) == CASE x = ""    -> <<>>
                [] x = " a " -> <<" ", "a", " ">>
                [] OTHER     -> <<x>>
\* JSON.stringify of a list of strings, as a string field
RECURSIVE JsonItems(_)
JsonItems(xs) ==
    IF xs = <<>> THEN <<>>
    ELSE <<QUOTE>> \o CharsOf(Head(xs)) \o <<QUOTE>>
            \o (IF Tail(xs) = <<>> THEN <<>> ELSE <<",">> \o JsonItems(Tail(xs)))
JsonText(xs) == Text(<<"[">> \o JsonItems(xs) \o <<"]">>)

NormInputs ==
    LET lists == {<<"a">>, <<" a ", "b">>, <<"a", "", "b">>, <<" ">>}
        texts ==
           {<<"a", ",", " ", "b", " ", ",", "c">>,
            <<QUOTE, "a", QUOTE, ",", " ", QUOTE, "b", QUOTE>>,
            <<QUOTE, " ", "a", " ", QUOTE, " ", ",", "b">>,
            <<" ", "a", ",", ",", "b", ",", " ">>,
            <<"[", "a", ",", " ", "b", "]">>,
            <<"[", " ", QUOTE, "a", QUOTE, ",", "b", " ", "]">>,
            <<"[", QUOTE, "a", QUOTE, " ", ",", " ", QUOTE, "b", QUOTE, "]">>,
            <<",">>,
            <<" ">>}
    IN lists \cup {JsonText(l) : l \in lists \cup {<<>>}} \cup {Text(t) : t \in texts}
NormBodies ==
    {Fail} \cup Bodies({[BaseResp EXCEPT !.images = f] : f \in NormInputs}, {EmptyStr})

NextNormalize ==
    \/ Quiet /\ TriggerWorkflow
    \/ \E r \in inflight : \E resp \in LiveTrigger : TriggerSettled(r, resp)
    \/ Quiet /\ FetchResults
    \/ \E r \in inflight : \E resp \in NormBodies : PollSettled(r, resp)
    \/ ResetAll
    \/ SelectTab("results")
    \/ \E x \in {"a", "b", "c"} : \E i \in 0..2 : ToggleSelected(imgKey(x, i))

SpecNormalize == Init /\ [][NextNormalize]_vars

\* --------------------------------------------------------------------------
\* Results send and Finals request overlapping: the Finals button is not
\* disabled while a send is in flight, so both exchanges can be outstanding.
NextOverlap ==
    \/ Quiet /\ TriggerWorkflow
    \/ \E r \in inflight : \E resp \in LiveTrigger : TriggerSettled(r, resp)
    \/ Quiet /\ FetchResults
    \/ \E r \in inflight : \E resp \in FinalsPoll : PollSettled(r, resp)
    \/ SendSelectedImagesBack
    \/ \E r \in inflight : \E resp \in FinalsPoll : SendSettled(r, resp)
    \/ SendImagesForFinals
    \/ \E r \in inflight : \E resp \in LiveFinals : FinalsSettled(r, resp)
    \/ \E t \in FinalsTabs : SelectTab(t)
    \/ \E k \in AllKeys : ToggleSelected(k)

SpecOverlap == Init /\ [][NextOverlap]_vars

(***************************************************************************)
(* Properties                                                              *)
(***************************************************************************)
\* exchange y was awaited before the step and is no longer awaited after it
Gone(y) == \A x \in inflight' : <<x.id, x.kind, x.hop>> # <<y.id, y.kind, y.hop>>
\* the exchanges the step has issued
Issued ==
    {x \in inflight' :
        \A y \in inflight : <<y.id, y.kind, y.hop>> # <<x.id, x.kind, x.hop>>}
\* a JSON body whose resumeUrl is an address and not a placeholder
SuppliesAddress(resp) ==
    resp.http = "ok" /\ resp.shape \in JsonShapes /\ LooksLikeAddress(resp.resumeUrl)
\* a JSON body whose resumeUrl is a placeholder
SuppliesPlaceholder(resp) ==
    /\ resp.http = "ok" /\ resp.shape \in JsonShapes
    /\ resp.resumeUrl # EmptyStr /\ ~LooksLikeAddress(resp.resumeUrl)
\* the continuation of one of the seven handlers that adopt an address
Adopting(r, resp) ==
    \/ r.kind = "style" /\ resp \in SeqStyle /\ StyleSettled(r, resp)
    \/ r.kind = "compose" /\ resp \in SeqReview /\ ComposeSettled(r, resp)
    \/ r.kind = "review" /\ resp \in SeqReview /\ ReviewSettled(r, resp)
    \/ r.kind = "submit" /\ resp \in SeqResult /\ SubmitSettled(r, resp)
    \/ r.kind = "poll" /\ resp \in SeqResult /\ PollSettled(r, resp)
    \/ r.kind = "send" /\ resp \in SeqResult /\ SendSettled(r, resp)
    \/ r.kind = "finals" /\ resp \in SeqFinals /\ FinalsSettled(r, resp)
SeqBodies == SeqStyle \cup SeqReview \cup SeqResult \cup SeqFinals

\* C1: whenever the active step is after Trigger, the stored continuation
\* address is non-empty, also after late responses and tab changes.
C1_LaterStepHasAddress == activeTab # "trigger" => resumeUrl # EmptyStr

\* C2: the selected map and the feedback map hold no key of an image that is
\* not in the current image list.
C2_NoStaleKeys ==
    /\ DOMAIN selected \subseteq ImageKeys(images)
    /\ DOMAIN imgFeedback \subseteq ImageKeys(images)

\* C3: every listed image has an entry in the selected map and in the
\* feedback map, whatever toggles, edits, responses and resets happened.
C3_ListedKeysPresent ==
    /\ ImageKeys(images) \subseteq DOMAIN selected
    /\ ImageKeys(images) \subseteq DOMAIN imgFeedback
C3_Witness ==
    /\ Len(images) = 2
    /\ \E k \in ImageKeys(images) :
          /\ k \in DOMAIN selected /\ selected[k]
          /\ k \in DOMAIN imgFeedback /\ imgFeedback[k] # ""
    /\ \E k \in ImageKeys(images) : k \in DOMAIN selected /\ ~selected[k]

\* C4: when a handler has processed a successful response whose body (object
\* or one-element list) holds a non-placeholder continuation address, the
\* stored address is that value.
C4_SuppliedAddressAdopted ==
    [][\A r \in inflight : \A resp \in SeqBodies :
          (SuppliesAddress(resp) /\ Adopting(r, resp))
              => resumeUrl' = resp.resumeUrl]_vars

\* C5: a handler that has processed a response whose supplied address is a
\* placeholder leaves the stored address as it was.
C5_PlaceholderRejected ==
    [][\A r \in inflight : \A resp \in SeqBodies :
          (SuppliesPlaceholder(resp) /\ Adopting(r, resp))
              => resumeUrl' = resumeUrl]_vars

\* C6: right after reset the whole session is at its initial values.
InitialSession ==
    /\ resumeUrl = EmptyStr /\ activeTab = "trigger"
    /\ status = "idle" /\ finalStatus = "idle"
    /\ message = "" /\ finalMessage = ""
    /\ deliverables = <<>> /\ images = <<>> /\ finalVideos = <<>>
    /\ DOMAIN selected = {} /\ DOMAIN imgFeedback = {}
    /\ filesStyle = <<>> /\ filesDocs = <<>> /\ prompt = ""
C8_PendingIsRetriggerable ==
    (resumeUrl # EmptyStr /\ status = "pending" /\ inflight = {}) => RefreshEnabled

\* C9: a continuation issues at most one request, only as the single
\* follow-up read of a Compose or Review-submit exchange that the operator
\* started, and none once it has set Results status Done or Error; no chain
\* is longer than two requests.
C9_AtMostOneFollowUp ==
    [][\A y \in inflight : Gone(y) =>
          \/ Issued = {}
          \/ /\ Cardinality(Issued) = 1
             /\ y.hop = 1
             /\ \A x \in Issued :
                   /\ x.hop = 2
                   /\ <<y.kind, x.kind>> \in {<<"compose", "review">>, <<"submit", "poll">>}
                   /\ x.kind = "poll" => status' = "pending"]_vars
\* the follow-up read of a Review-submit is awaited
C9_Witness == \E r \in inflight : r.kind = "poll" /\ r.hop = 2 /\ r.nested

\* C10: a Review-submit response that carries images or an explicit done or
\* error status is not followed by a Results fetch.
CarriesResult(resp) ==
    \/ \E i \in 1..Len(resp.images) : Trim(resp.images[i]) # ""
    \/ resp.status \in {"done", "error", "ERROR"}
C10_TerminalResponseNotPolled ==
    [][\A r \in inflight : \A resp \in SeqResult :
          (r.kind = "submit" /\ resp.http = "ok" /\ CarriesResult(resp)
                             /\ SubmitSettled(r, resp))
              => \A x \in inflight' : x.kind # "poll"]_vars
\* the submit response set an explicit state and no Results fetch was ever
\* started (resultsAbortRef is still null)
C10_Witness ==
    /\ activeTab = "results" /\ status \in {"done", "error"} /\ images = <<>>
    /\ resultsAbortRef = 0 /\ inflight = {} /\ ~sendingImages

\* C11: for each of the seven guarded actions at most one exchange is in
\* flight, and while it is in flight the busy flag that disables the action's
\* control is set.
GuardedKinds == {"trigger", "style", "compose", "review", "submit", "send", "finals"}
Busy(kind) ==
    CASE kind = "trigger" -> isTriggering
      [] kind = "style"   -> isUploadingStyle
      [] kind = "compose" -> isComposing
      [] kind \in {"review", "submit"} -> isSubmittingReview
      [] kind = "send"    -> sendingImages
      [] kind = "finals"  -> finalStatus = "pending"
      [] OTHER -> TRUE
Outstanding(kind) == {r \in inflight : r.kind = kind}
C11_OneExchangePerAction ==
    \A k \in GuardedKinds :
        /\ Cardinality(Outstanding(k)) <= 1
        /\ Outstanding(k) # {} => Busy(k)

\* C12: no two exchanges in flight at once can both write the same session
\* field (Results status, image list, message, continuation address, active
\* step); a Results fetch that a newer one superseded is cancelled and
\* writes nothing.
Writes(kind) ==
    CASE kind = "trigger" -> {"resumeUrl", "activeTab", "message"}
      [] kind = "style"   -> {"resumeUrl", "activeTab", "message"}
      [] kind = "compose" -> {"resumeUrl", "activeTab", "message"}
      [] kind = "review"  -> {"resumeUrl", "activeTab", "message"}
      [] kind = "submit"  -> {"resumeUrl", "activeTab", "message", "status", "images"}
      [] kind = "poll"    -> {"resumeUrl", "message", "status", "images"}
      [] kind = "send"    -> {"resumeUrl", "activeTab", "message", "status", "images"}
      [] kind = "finals"  -> {"resumeUrl"}
      [] OTHER -> {}
CanWrite(r) == IF r.kind = "poll" /\ r.aborted THEN {} ELSE Writes(r.kind)
C12_NoTwoWriters ==
    \A r1 \in inflight : \A r2 \in inflight :
        r1 # r2 => CanWrite(r1) \cap CanWrite(r2) = {}

\* C13: a step in which a response is handled never moves the active step
\* to one that is earlier in the order of the tabs.
Rank(t) == CHOOSE i \in 1..Len(Tabs) : Tabs[i] = t
C13_HandlersNeverRevert ==
    [][(\E y \in inflight : Gone(y)) => Rank(activeTab') >= Rank(activeTab)]_vars

\* C14: a one-element list wrapping an object is handled as the object
\* itself: whenever a step handles the object o, handling [o] from the same
\* state gives the same next state (each handler is deterministic, so the
\* step is then also a step of the handler for [o]).
Wrap(resp) == [resp EXCEPT !.shape = "list"]
Handles(r, resp) ==
    \/ r.kind = "trigger" /\ resp \in SeqTrigger /\ TriggerSettled(r, resp)
    \/ Adopting(r, resp)
C14_WrappedHandledAlike ==
    [][\A r \in inflight : \A resp \in SeqTrigger \cup SeqBodies :
          (resp.http = "ok" /\ resp.shape = "obj" /\ Handles(r, resp))
              => Handles(r, Wrap(resp))]_vars

\* C15: the video list taken from a Finals response is the list of the
\* first field, in the order videos, media, that yields a non-empty list
\* (the bodies of the model carry these two of the four fields).
FirstNonEmpty(root) ==
    IF pickList(root.videos) # <<>> THEN pickList(root.videos)
    ELSE pickList(root.media)
C15_FirstNonEmptyVideoField ==
    [][\A r \in inflight : \A resp \in FinalsBodies :
          (/\ resp.http = "ok" /\ resp.shape \in JsonShapes
           /\ FirstNonEmpty(Root(resp)) # <<>>
           /\ FinalsSettled(r, resp))
              => finalVideos' = FirstNonEmpty(Root(resp))]_vars

\* C16: when a parsed response reports status "error" (in any letter case),
\* Review-submit, Results-refresh and Results-send set the Results status to
\* Error and the Finals request sets finalStatus to Error, each with the
\* engine's message when there is one and a non-empty text otherwise.
ReportsError(resp) ==
    resp.http = "ok" /\ resp.shape \in JsonShapes /\ ToLower(resp.status) = "error"
ResultsHandled(r, resp) ==
    \/ r.kind = "submit" /\ SubmitSettled(r, resp)
    \/ r.kind = "poll" /\ PollSettled(r, resp)
    \/ r.kind = "send" /\ SendSettled(r, resp)
Surfaced(text, resp) == IF resp.message # "" THEN text = resp.message ELSE text # ""
C16_RemoteErrorMarksError ==
    [][\A r \in inflight : \A resp \in FinalsPoll \cup FinalsBodies :
          ReportsError(resp) =>
             /\ ResultsHandled(r, resp)
                   => status' = "error" /\ Surfaced(message', resp)
             /\ (r.kind = "finals" /\ FinalsSettled(r, resp))
                   => finalStatus' = "error" /\ Surfaced(finalMessage', resp)]_vars

\* the response is a transport failure, or a shape failure of the trigger
\* (no continuation address) or of a Review fetch (no deliverables list)
Failed(r, resp) ==
    \/ resp.http # "ok"
    \/ r.kind = "trigger" /\ resp.resumeUrl = EmptyStr
    \/ r.kind = "review" /\ resp.DELIVERABLES = None
LastGood == <<activeTab, resumeUrl, deliverables, images, finalVideos>>
FailureHandled ==
    \E r \in inflight : \E resp \in SeqTrigger \cup SeqBodies :
        Failed(r, resp) /\ Handles(r, resp)
\* a step in which the operator starts a request
OperatorStart == Issued # {} /\ \A y \in inflight : ~Gone(y)
C18_BusyFlagsClear ==
    /\ isTriggering ~> ~isTriggering
    /\ isUploadingStyle ~> ~isUploadingStyle
    /\ isComposing ~> ~isComposing
    /\ isSubmittingReview ~> ~isSubmittingReview
    /\ sendingImages ~> ~sendingImages
\* Review-submit holds its flag while its follow-up Results fetch is awaited
C18_Witness ==
    /\ isSubmittingReview /\ activeTab = "results" /\ status = "pending"
    /\ \E r \in inflight : r.kind = "poll" /\ r.nested

\* C19: the selections array of a Results-send or Finals request has exactly
\* one entry per image of the current list whose selected value is true, in
\* list order, each with the image's reference, its index in the list and
\* its feedback without leading and trailing whitespace.
SelectedIndexes ==
    {i \in 0..(Len(images) - 1) :
        /\ imgKey(images[i + 1], i) \in DOMAIN selected
        /\ selected[imgKey(images[i + 1], i)]}
EntryOf(i) ==
    [image |-> images[i + 1], index |-> i,
     feedback |-> Trim(imgFeedback[imgKey(images[i + 1], i)])]
C19_SelectionsPayload ==
    [][\A x \in Issued : x.kind \in {"send", "finals"} =>
          LET sel == x.selections IN
          /\ Len(sel) = Cardinality(SelectedIndexes)
          /\ \A j \in 1..Len(sel) :
                sel[j].index \in SelectedIndexes /\ sel[j] = EntryOf(sel[j].index)
          /\ \A j \in 1..Len(sel) : \A k \in 1..Len(sel) :
                j < k => sel[j].index < sel[k].index]_vars
\* of two listed images only the second is sent, with its feedback trimmed
C19_Witness ==
    \E x \in inflight :
        /\ x.kind \in {"send", "finals"}
        /\ Len(images) = 2 /\ Len(x.selections) = 1
        /\ x.selections[1] = [image |-> "b", index |-> 1, feedback |-> "f"]

\* the trigger's continuation handles a JSON object that supplies an address
TriggerSupplied(r, resp) ==
    /\ r.kind = "trigger" /\ resp.http = "ok" /\ resp.shape = "obj"
    /\ resp.resumeUrl # EmptyStr
    /\ TriggerSettled(r, resp)
\* C20 (as stated): after a trigger whose response supplies the address a the
\* active step is Style Upload and the stored address is the resolved form
\* of a.
C20_TriggerStoresResolved ==
    [][\A r \in inflight : \A resp \in SeqTrigger :
          TriggerSupplied(r, resp) =>
             activeTab' = "uploadStyle" /\ resumeUrl' = toProxied(resp.resumeUrl)]_vars
\* C20 (amended): after such a trigger the active step is Style Upload and
\* the stored address is a as supplied; the resolved form is computed when a
\* request is sent, so each request of the operator goes to the resolved
\* form of the stored address.
C20_TriggerStoresSupplied ==
    [][/\ \A r \in inflight : \A resp \in SeqTrigger :
             TriggerSupplied(r, resp) =>
                activeTab' = "uploadStyle" /\ resumeUrl' = resp.resumeUrl
       /\ OperatorStart =>
             \A x \in Issued : x.kind # "trigger" =>
                x.url = resumeUrl /\ x.target = toProxied(resumeUrl)]_vars
\* the stored address is the supplied one, not its resolved form, and the
\* style upload was sent to the resolved form
C20_Witness ==
    /\ activeTab = "uploadStyle" /\ resumeUrl = UrlA
    /\ toProxied(UrlA) # UrlA
    /\ \E x \in inflight : x.kind = "style" /\ x.target = ApiPrefix \o UrlA

\* C21: a Compose response (object or one-element list) that carries a
\* deliverables list stores that list with every field value converted to a
\* string, moves to Review and issues no further request.
ComposeCarriesDeliverables(resp) ==
    resp.http = "ok" /\ resp.shape \in JsonShapes /\ resp.DELIVERABLES # None
StringifiedDeliverables == << [Scene |-> "x", Shots |-> "5", Notes |-> ""] >>
C21_ComposeDeliverablesStored ==
    [][\A r \in inflight : \A resp \in SeqReview :
          (r.kind = "compose" /\ ComposeCarriesDeliverables(resp)
             /\ ComposeSettled(r, resp))
          => /\ deliverables' = StringifiedDeliverables
             /\ activeTab' = "review"
             /\ Issued = {}
             /\ inflight' = inflight \ {r}]_vars
C21_Witness ==
    /\ deliverables = StringifiedDeliverables /\ activeTab = "review"
    /\ inflight = {} /\ ~isComposing /\ ~isSubmittingReview

\* C22: a Results refresh answered successfully ends in exactly one of three
\* outcomes: an error status marks Error; otherwise a non-empty image list
\* marks Done and is displayed; otherwise, also when the response says done
\* or ok, the status is Pending and a response without message leaves the
\* default waiting text.
RefreshAnswered(r, resp) ==
    /\ r.kind = "poll" /\ resp.http = "ok" /\ resp.shape \in JsonShapes
    /\ PollSettled(r, resp)
C22_RefreshThreeOutcomes ==
    [][\A r \in inflight : \A resp \in ImagesResult :
          RefreshAnswered(r, resp) =>
             IF ToLower(resp.status) = "error"
               THEN status' = "error"
             ELSE IF normalizeImages(resp.images) # <<>>
               THEN status' = "done" /\ images' = normalizeImages(resp.images)
             ELSE /\ status' = "pending"
                  /\ resp.message = ""
                        => message' = "Waiting for images from n8n..."]_vars

\* C23: a Finals response whose body parses as JSON neither whole nor as the
\* text from the first opening bracket or brace to the last closing one sets
\* finalStatus to Error; the message is the remediation text when the body
\* contains "Workflow was started" in any letter case, the generic
\* parse-failure text otherwise.
MarkerSpellings == {"Workflow was started", "WORKFLOW WAS STARTED"}
BracketSpan(raw) ==
    LET opens  == {i \in DOMAIN raw : raw[i] = "[" \/ raw[i] = "{"}
        closes == {i \in DOMAIN raw : raw[i] = "]" \/ raw[i] = "}"}
    IN IF opens = {} \/ closes = {} THEN <<>>
       ELSE SubSeq(raw, MinOf(opens), MaxOf(closes))
Unparseable(raw) ==
    JSONparse(raw) = "SyntaxError" /\ JSONparse(BracketSpan(raw)) = "SyntaxError"
C23_UnparseableFinalsIsError ==
    [][\A r \in inflight : \A resp \in FinalsBodies :
          (r.kind = "finals" /\ resp.http = "ok" /\ resp.shape = "text"
             /\ Unparseable(resp.raw) /\ FinalsSettled(r, resp))
          => /\ finalStatus' = "error"
             /\ finalMessage' =
                   IF \E i \in DOMAIN resp.raw : resp.raw[i] \in MarkerSpellings
                   THEN "Got 'Workflow was started'. Ensure POST hits /webhook-wait/ and Webhook uses 'Respond to Webhook'."
                   ELSE "Could not parse response JSON from n8n."]_vars
C23_Witness ==
    /\ finalStatus = "error" /\ activeTab = "finals"
    /\ finalMessage = "Got 'Workflow was started'. Ensure POST hits /webhook-wait/ and Webhook uses 'Respond to Webhook'."

\* C24: every request to the continuation endpoint (StyleUpload, Compose,
\* Review refresh, Review submit, Results refresh, Results send, Finals) is
\* sent to the resolved form of the stored continuation address, never to the
\* address as stored.
ContinuationKinds == {"style", "compose", "review", "submit", "poll", "send", "finals"}
ResolvedForm(a) ==
    CASE a = UrlA           -> <<"/", "a", "p", "i", "/", "w", "1">>
      [] a = UrlB           -> <<"/", "a", "p", "i", "/", "w", "2">>
      [] a = UrlPlaceholder -> <<"/", "a", "p", "i", "/", MARKER>>
      [] OTHER              -> <<>>
C25_ResolverIdempotent ==
    \A x \in inflight :
       x.kind \in ContinuationKinds =>
          /\ x.target = toProxied(x.url)
          /\ toProxied(x.target) = x.target
C25_Witness ==
    \E x \in inflight :
       /\ x.kind = "style"
       /\ x.url = <<"/", "a", "p", "i", "/", "w", "3">>
       /\ x.target = x.url
       /\ toProxied(x.target) = x.target

\* C26: the Resolver's output is always under the local prefix: prefix +
\* path + query for an absolute input; a relative input is returned unchanged
\* only when it is already under the prefix and is otherwise appended to the
\* prefix with exactly one separating slash, also when it merely begins
\* with the characters of the prefix ("/apix/y").
UnderPrefix(s) == s = ApiPrefix \/ StartsWith(s, ApiPrefix \o <<"/">>)
WithOneSlash(s) ==
    ApiPrefix \o (IF Len(s) > 0 /\ s[1] = "/" THEN s ELSE <<"/">> \o s)
C26_OutputUnderPrefix ==
    \A x \in inflight :
       x.kind \in ContinuationKinds =>
          /\ UnderPrefix(x.target)
          /\ x.url[1] = ORIGIN =>
                x.target = WithOneSlash(SubSeq(x.url, 2, Len(x.url)))
          /\ x.url[1] # ORIGIN =>
                x.target = IF UnderPrefix(x.url) THEN x.url ELSE WithOneSlash(x.url)

\* C27: the image-list coercion returns the same list for a native list and
\* for the string that holds its JSON encoding; a comma-delimited string
\* gives its pieces without surrounding whitespace and quote characters and
\* without empty pieces ("a, b ,c" gives a, b, c); no result contains an
\* empty string.
CoercionExamples ==
    {<< <<" a ", "b">>, <<"a", "b">> >>,
     << <<"a", "", "b">>, <<"a", "b">> >>,
     << Text(<<"[", QUOTE, " ", "a", " ", QUOTE, ",", QUOTE, "b", QUOTE, "]">>),
        <<"a", "b">> >>,
     << Text(<<"a", ",", " ", "b", " ", ",", "c">>), <<"a", "b", "c">> >>,
     << Text(<<QUOTE, "a", QUOTE, ",", " ", QUOTE, "b", QUOTE>>), <<"a", "b">> >>,
     << Text(<<QUOTE, " ", "a", " ", QUOTE, " ", ",", "b">>), <<"a", "b">> >>,
     << Text(<<" ", "a", ",", ",", "b", ",", " ">>), <<"a", "b">> >>,
     << Text(<<",">>), <<>> >>}
MessageKinds == {"trigger", "style", "compose", "review", "submit", "poll", "send"}
C28_MessageClearedAndOverwritten ==
    [][/\ \A x \in Issued :
             (x.kind \in MessageKinds /\ x.hop = 1) => message' = ""
       /\ \A r \in inflight : \A resp \in ImagesResult :
             (RefreshAnswered(r, resp) /\ resp.message # "")
                => message' = resp.message]_vars

\* C29: when the response to a Compose or to a Review submit supplies a new
\* continuation address and no terminal data, the one follow-up read (the
\* Review fetch, the Results fetch) is sent to the newly adopted address and
\* not to the address the submission was sent to.
C29_FollowUpUsesAdoptedAddress ==
    [][\A r \in inflight : \A resp \in SeqReview \cup SeqResult :
          (r.kind \in {"compose", "submit"} /\ Adopting(r, resp)
             /\ resumeUrl' # resumeUrl /\ LooksLikeAddress(resumeUrl'))
          => \A x \in Issued :
                /\ x.url = resumeUrl'
                /\ x.target = ResolvedForm(resumeUrl')
                /\ x.target # r.target]_vars

\* C30: the answer to a request issued before a reset never changes the
\* session: when the stored address is empty again (New Run was pressed and
\* no new run has an address yet), the arrival of the response or failure of
\* a Review submit, Results refresh, Results send, Finals request or Review
\* fetch still in flight leaves address, step, statuses, messages,
\* deliverables, images and videos as they are.
ResetSensitive == {"submit", "poll", "send", "finals", "review"}
SessionValues ==
    <<resumeUrl, activeTab, status, finalStatus, message, finalMessage,
      deliverables, images, finalVideos>>
C30_LateResponseIsIgnored ==
    [][\A r \in inflight :
          (r.kind \in ResetSensitive /\ resumeUrl = EmptyStr /\ Gone(r))
             => SessionValues' = SessionValues]_vars

\* C31: after a successful response to the Review submit the step is Results;
\* a non-empty image list gives status Done with the list stored; otherwise
\* status done gives Done and status error gives Error; otherwise exactly
\* one Results fetch is issued, and its answer sets the status without a
\* further request.
C31_SubmitOutcomes ==
    [][\A r \in inflight : \A resp \in SeqResult :
          /\ (r.kind = "submit" /\ resp.http = "ok" /\ SubmitSettled(r, resp))
               => /\ activeTab' = "results"
                  /\ IF normalizeImages(resp.images) # <<>>
                       THEN /\ status' = "done" /\ Issued = {}
                            /\ images' = normalizeImages(resp.images)
                     ELSE IF ToLower(resp.status) = "done"
                       THEN status' = "done" /\ Issued = {}
                     ELSE IF ToLower(resp.status) = "error"
                       THEN status' = "error" /\ Issued = {}
                     ELSE /\ Cardinality(Issued) = 1
                          /\ \A x \in Issued : x.kind = "poll" /\ x.nested
                          /\ status' = "pending"
          /\ (r.kind = "poll" /\ r.nested /\ PollSettled(r, resp))
               => /\ Issued = {}
                  /\ status' \in {"done", "error", "pending"}
                  /\ resp.http # "ok" => status' = "error"
                  /\ (resp.http = "ok" /\ normalizeImages(resp.images) # <<>>)
                        => status' = "done"]_vars
C31_Witness ==
    /\ activeTab = "results" /\ status = "pending" /\ isSubmittingReview
    /\ \E r \in inflight : r.kind = "poll" /\ r.nested /\ r.hop = 2 /\ ~r.aborted

\* C32: a Finals request with a selected image moves the step to Finals and
\* sets finalStatus to Pending with the generating message before the
\* request is answered, and until its outcome is handled no step other than
\* an operator action changes the step or finalStatus.
FinalsAwaited ==
    /\ activeTab = "finals" /\ finalStatus = "pending"
    /\ \E f \in inflight : f.kind = "finals"
C32_FinalsAdvanceHolds ==
    [][/\ \A x \in Issued :
             x.kind = "finals"
                => /\ activeTab' = "finals" /\ finalStatus' = "pending"
                   /\ finalMessage' = "Generating videos from selected images..."
       /\ \A r \in inflight :
             (FinalsAwaited /\ r.kind # "finals" /\ Gone(r))
                => activeTab' = "finals" /\ finalStatus' = "pending"]_vars

\* C33: a Finals response that parses ends Done with the extracted video
\* list stored exactly when that list is non-empty, or ok is true, or the
\* status is done; otherwise it ends Pending with the server's message or
\* the default waiting text, and the stored video list is unchanged. The
\* extracted list is the one the handler computes (see C15 for the fields).
FinalsParsed(r, resp) ==
    /\ r.kind = "finals" /\ resp.http = "ok" /\ resp.shape \in JsonShapes
    /\ FinalsSettled(r, resp)
C33_FinalsOutcomes ==
    [][\A r \in inflight : \A resp \in FinalsBodies :
          FinalsParsed(r, resp) =>
             LET vids == pickList(Root(resp).videos)
             IN IF vids # <<>> \/ resp.ok \/ ToLower(resp.status) = "done"
                  THEN finalStatus' = "done" /\ finalVideos' = vids
                  ELSE /\ finalStatus' = "pending"
                       /\ finalMessage' = IF resp.message # "" THEN resp.message
                                          ELSE "Waiting for videos from n8n..."
                       /\ finalVideos' = finalVideos]_vars
C33_Witness ==
    /\ activeTab = "finals" /\ finalStatus = "done" /\ finalVideos = <<>>
    /\ finalMessage = "Done." /\ \A x \in inflight : x.kind # "finals"

\* C34: when no listed image is selected, the Results send and the Finals
\* request issue no network call and change nothing but the message: status,
\* finalStatus, active step, image list, continuation address and the busy
\* flags are as before.
NoneListedSelected ==
    \A i \in 1..Len(images) :
        LET k == imgKey(images[i], i - 1)
        IN ~(k \in DOMAIN selected /\ selected[k])
C34_NoSelectionOnlyMessage ==
    [][NoneListedSelected /\ (SendSelectedImagesBack \/ SendImagesForFinals) =>
          /\ message' = "Select at least one image before sending."
          /\ UNCHANGED <<inflight, status, finalStatus, finalMessage, finalVideos,
                         activeTab, images, deliverables, resumeUrl, flags,
                         inputs, maps, resultsAbortRef>>]_vars
C34_Witness ==
    /\ images # <<>> /\ NoneListedSelected /\ activeTab = "results"
    /\ message = "Select at least one image before sending."
    /\ finalStatus = "idle"

\* --------------------------------------------------------------------------
\* The Review refresh alone: after a trigger the operator opens the Review
\* step and refreshes; the engine answers with no deliverables, with one
\* list or with another, as an object, as a one-element list or as text.
DelivMore == << [Scene |-> JStr("y")], [Scene |-> JNum(0), Notes |-> JStr("n")] >>
RefreshBodies ==
    {Fail, NotJson} \cup
    Bodies({BaseResp, WithDeliverables, [BaseResp EXCEPT !.DELIVERABLES = Some(DelivMore)]},
           {EmptyStr, UrlB})

NextReview ==
    \/ Quiet /\ TriggerWorkflow
    \/ \E r \in inflight : \E resp \in LiveTrigger : TriggerSettled(r, resp)
    \/ FetchReview
    \/ \E r \in inflight : \E resp \in RefreshBodies : ReviewSettled(r, resp)
    \/ \E t \in {"trigger", "review"} : SelectTab(t)
    \/ ResetAll

SpecReview == Init /\ [][NextReview]_vars

\* C35: a Review refresh whose response has no deliverables list fails with
\* the message that no deliverables were found and leaves the stored
\* deliverables and the active step as they were; a response with a
\* deliverables list replaces the stored deliverables with that list, every
\* field value converted to a string.
StringifiedMore == << [Scene |-> "y"], [Scene |-> "0", Notes |-> "n"] >>
AsStrings(ds) == IF ds = DelivRaw THEN StringifiedDeliverables ELSE StringifiedMore
ReviewRefreshed(r, resp) ==
    /\ r.kind = "review" /\ resp.http = "ok" /\ ReviewSettled(r, resp)
C36_NewKeysStartClean ==
    [][images' # images =>
          \A k \in ImageKeys(images') :
             IF k \in ImageKeys(images)
               THEN selected'[k] = selected[k] /\ imgFeedback'[k] = imgFeedback[k]
               ELSE selected'[k] = FALSE /\ imgFeedback'[k] = ""]_vars

\* --------------------------------------------------------------------------
\* The image store alone: one exchange at a time, the operator refreshes and
\* sends with every Results body of the model (each image list, empty, error,
\* done, with message, failures), toggles images and resets, also while a
\* response is outstanding.
NextStore ==
    \/ Quiet /\ TriggerWorkflow
    \/ \E r \in inflight : \E resp \in LiveTrigger : TriggerSettled(r, resp)
    \/ Quiet /\ FetchResults
    \/ \E r \in inflight : \E resp \in ImagesResult : PollSettled(r, resp)
    \/ Quiet /\ SendSelectedImagesBack
    \/ \E r \in inflight : \E resp \in ImagesResult : SendSettled(r, resp)
    \/ ResetAll
    \/ \E t \in {"trigger", "results"} : SelectTab(t)
    \/ \E k \in AllKeys : ToggleSelected(k)

SpecStore == Init /\ [][NextStore]_vars

\* C37: the stored image list is replaced only by a response that carries a
\* non-empty image list and is emptied only by reset; a Results refresh or
\* Results send that ends Pending or Error leaves the stored list and the
\* selected and feedback entries as they were, so a populated list is not
\* empty again before a reset.
ResultsAnswered(r, resp) ==
    \/ r.kind = "poll" /\ PollSettled(r, resp)
    \/ r.kind = "send" /\ SendSettled(r, resp)
C37_ImagesReplacedOrReset ==
    [][/\ images' # images =>
             IF images' = <<>> THEN ResetAll
             ELSE \E r \in inflight : \E resp \in ImagesResult :
                     /\ resp.http = "ok" /\ ResultsAnswered(r, resp)
                     /\ images' = normalizeImages(Root(resp).images)
       /\ \A r \in inflight : \A resp \in ImagesResult :
             (ResultsAnswered(r, resp) /\ status' \in {"pending", "error"})
                => UNCHANGED <<images, selected, imgFeedback>>]_vars
\* a populated list with a selection, after a refresh that ended Pending
C37_Witness ==
    /\ images = <<"a", "b">> /\ status = "pending" /\ inflight = {}
    /\ message = "Waiting for images from n8n..."
    /\ \E k \in ImageKeys(images) : selected[k]

\* C38: Finals Pending is never a dead end: whenever finalStatus is pending
\* and no exchange is in flight, the Finals request can be issued again from
\* the Results step.
C38_PendingCanRetry ==
    (finalStatus = "pending" /\ inflight = {} /\ activeTab = "results")
        => ENABLED SendImagesForFinals
\* what the handlers do instead: with nothing in flight, pending is left
\* only through resetAll
FinalsPendingLeftByReset ==
    [][(finalStatus = "pending" /\ inflight = {} /\ finalStatus' # "pending")
          => ResetAll]_vars

====
